---- MODULE Spec2Model ----
(***************************************************************************)
(* A model of the training control plane of k0der/SpaceInvaders:           *)
(*   - training/train_v3.py: the episode-outcome tracker                   *)
(*     (WinRateCallback), the best-checkpoint tracker (BestModelCallback), *)
(*     the telemetry logger (JsonLogCallback) and the config watcher       *)
(*     (ConfigReloadCallback), run once per training tick in the order of  *)
(*     the callback list; the curriculum of main over train_stage;         *)
(*   - training/env.py: the simulation bridge (SpaceDogfightEnv) and the   *)
(*     worker pool that train_stage builds over it.                        *)
(*                                                                         *)
(* Thresholds and win rates are compared as exact rationals: a threshold   *)
(* is kept in percent and sum/len >= t is sum*100 >= t*len.  The code      *)
(* compares IEEE doubles; for windows of a few hundred episodes and        *)
(* thresholds of a few decimal digits the two orders agree, since two      *)
(* distinct such rationals differ by far more than one rounding error and  *)
(* equal ones round to the same double.                                    *)
(***************************************************************************)
EXTENDS Integers, Sequences, FiniteSets, TLC

(***************************************************************************)
(* Bounds of the exploration.                                              *)
(***************************************************************************)
\* episodes counted in one stage
MaxEpisodes == 5
\* episodes counted in one stage when the workers report every kind of info
MaxCounted == 3
\* edits of the configuration file by the operator during one stage
MaxEdits == 1
\* worker processes one bridge spawns
MaxSpawns == 2
\* lines of the telemetry log a stage finds at its start
MaxLines == 3
\* the wall clock at the end of the exploration, in logging intervals
MaxClock == 3
\* restarts of one stage
MaxRestarts == 1
\* entries of the longest telemetry log a stage finds at its start
LongLog == 10
\* request lines one bridge writes to one worker process
MaxRequests == 4

(***************************************************************************)
(* Input sets.                                                             *)
(***************************************************************************)
\* (window_size, min_episodes) pairs: --window-size and
\* --min-episodes-before-promote of the command line
TrackerConfigs ==
    { [window |-> 5, min |-> 5],
      [window |-> 2, min |-> 3],
      [window |-> 3, min |-> 1] }

\* promotionThreshold values of a stage, in percent
Thresholds == {60, 80}

\* learning rates of the ppo block, in units of 1e-4
LearningRates == {1, 3}

\* number of environments of a run (--num-envs)
EnvCounts == {1, 2}

\* The terminal infos a worker reports, one per winner tag, and one without
\* a winner field (which still carries a breakdown and death causes).
TerminalInfos ==
    { [winner |-> "none", rewardBreakdown |-> "rb0",
       agentDeathCause |-> "asteroid", opponentDeathCause |-> "asteroid"],
      [winner |-> "agent", rewardBreakdown |-> "rb1",
       agentDeathCause |-> "none", opponentDeathCause |-> "asteroid"],
      [winner |-> "opponent", rewardBreakdown |-> "none",
       agentDeathCause |-> "asteroid", opponentDeathCause |-> "none"],
      [winner |-> "timeout", rewardBreakdown |-> "rb2",
       agentDeathCause |-> "none", opponentDeathCause |-> "none"],
      [winner |-> "draw_mutual", rewardBreakdown |-> "none",
       agentDeathCause |-> "bullet", opponentDeathCause |-> "bullet"] }

\* The info of a step that ends no episode.
StepInfo ==
    [winner |-> "none", rewardBreakdown |-> "none",
     agentDeathCause |-> "none", opponentDeathCause |-> "none"]

VARIABLES
    \* ---- WinRateCallback (train_v3.py 78-99) ----
    window_size, min_episodes, promotion_threshold,
    outcomes, outcome_details, reward_breakdowns,
    agent_asteroid_deaths, opponent_asteroid_deaths, should_promote,
    \* ---- the tick ----
    num_envs,      \* workers of the pool
    worker_reports, \* the (done, info) pairs the workers of this run report
    horizon,       \* episodes the exploration follows the stage for
    locals,        \* the dones / infos arrays of the current tick
    callbacks,     \* the callbacks of the list that the exploration follows
    cb,            \* the callback of the list that runs next
    \* ---- ConfigReloadCallback (train_v3.py 229-242) and its file ----
    cfg,           \* the configuration file on disk
    last_mtime,    \* _last_mtime
    check_due,     \* now - _last_check_time >= check_every_seconds
    learning_rate, \* model.learning_rate
    reload_result, \* how the watcher's last _on_step ended
    \* ---- BestModelCallback (train_v3.py 351-357) and its files ----
    check_every, best_win_rate, last_checked_episodes,
    best_written,  \* the records written to best_meta.json, each with a
                   \* save of best.zip; the file holds the last
    observed,      \* the rolling win rates the callback has compared
    \* ---- JsonLogCallback (train_v3.py 397-429) and its files ----
    entries,       \* _entries
    last_log_time, \* _last_log_time, in units of print_every_seconds
    now,           \* time.time(), in the same units
    jsonl,         \* stage<N>.jsonl: its lines, and whether the last one
                   \* ends with a newline
    dashboard_js,  \* the array written to dashboard_data.js
    \* ---- main and train_stage (train_v3.py 713-800, 522-667) ----
    config,        \* the configuration main has loaded (line 721): the
                   \* stage numbers it holds, their promotionThreshold
                   \* and the learning_rate of its ppo section
    args,          \* --stage, --auto-promote, --continue-all-stages, and
                   \* --checkpoint: "none", or a path that "exists" or is
                   \* "missing"
    stage_num,     \* the loop variable of main
    main_pc,       \* the position of main and of train_stage
    checkpoint,    \* the stage whose final.zip `checkpoint` names, or 0
    promoted,      \* what the last train_stage returned
    started,       \* the stages train_stage was called for, in order
    loaded,        \* what each of these calls built its model from
    finals,        \* the stages whose final.zip has been written
    metas,         \* the records written to the stages' meta.json
    open_pools,    \* the stages whose vec env is open
    exports,       \* the calls of export_onnx
    \* ---- SpaceDogfightEnv (env.py 26-46), one per worker of the pool ----
    bridge,        \* slot -> the bridge's state, see NewBridge
    \* ---- the vectorised environment of train_stage (lines 576-586) ----
    loop,          \* "direct": the bridges are driven by their caller;
                   \* else the state of model.learn over the pool
    cmd            \* the command the pool has sent to its workers

trackerVars ==
    << window_size, min_episodes, promotion_threshold, outcomes,
       outcome_details, reward_breakdowns, agent_asteroid_deaths,
       opponent_asteroid_deaths, should_promote >>

tickVars == << num_envs, worker_reports, horizon, locals, callbacks, cb >>

watcherVars == << cfg, last_mtime, check_due, learning_rate, reload_result >>

bestVars ==
    << check_every, best_win_rate, last_checked_episodes, best_written,
       observed >>

logVars == << entries, last_log_time, now, jsonl, dashboard_js >>

mainVars ==
    << config, args, stage_num, main_pc, checkpoint, promoted, started,
       loaded, finals, metas, open_pools, exports >>

bridgeVars == << bridge, loop, cmd >>

trainVars ==
    << trackerVars, tickVars, watcherVars, bestVars, logVars, mainVars >>

vars == << trainVars, bridgeVars >>

(***************************************************************************)
(* Helpers.                                                                *)
(***************************************************************************)
Max(a, b) == IF a >= b THEN a ELSE b

Min(a, b) == IF a <= b THEN a ELSE b

RECURSIVE Sum(_)
Sum(s) == IF s = << >> THEN 0 ELSE Head(s) + Sum(Tail(s))

\* Python's s[-k:] : the last k elements, all of s when k >= len(s), and
\* all of s when k = 0 (s[-0:] is s[0:]).
LastSlice(s, k) ==
    IF k = 0 \/ k >= Len(s) THEN s
    ELSE SubSeq(s, Len(s) - k + 1, Len(s))

\* The callback that runs after callback c: the next one of the list
\* (lines 632-636), and the first one, in the next tick, after the last.
After(c) ==
    LET i == CHOOSE j \in 1..Len(callbacks) : callbacks[j] = c
    IN  IF i = Len(callbacks) THEN callbacks[1] ELSE callbacks[i + 1]

(***************************************************************************)
(* WinRateCallback (train_v3.py).                                          *)
(***************************************************************************)
\* _rolling_win_rate with the share taken over the whole history.
RollingWinRate_WholeHistory(outs, w) ==
    IF Len(outs) = 0 THEN << >> ELSE << Sum(outs), Len(outs) >>

\* _rolling_win_rate, lines 130-135: None on an empty history, else the
\* share of 1s among the last min(window_size, n) outcomes, kept as the
\* pair <<wins, length>>.
RollingWinRate(outs, w) ==
    IF Len(outs) = 0 THEN << >>
    ELSE LET recent == LastSlice(outs, Min(w, Len(outs)))
         IN  << Sum(recent), Len(recent) >>

\* CountEpisode without the test of done: an outcome is counted whenever
\* the info carries a winner.
CountEpisode_IgnoreDone(st, done, info) ==
    IF info.winner = "none" THEN st
    ELSE [ st EXCEPT
             !.outcomes = Append(@, IF info.winner = "agent" THEN 1 ELSE 0),
             !.outcome_details =
                 Append(@, IF info.winner = "agent" THEN "win"
                           ELSE IF info.winner = "draw_mutual" THEN "draw_mutual"
                           ELSE IF info.winner = "timeout" THEN "timeout"
                           ELSE "loss") ]

\* CountEpisode on a history that keeps its last two outcomes only.
CountEpisode_Windowed(st, done, info) ==
    IF ~done \/ info.winner = "none" THEN st
    ELSE [ st EXCEPT
             !.outcomes =
                 LastSlice(Append(@, IF info.winner = "agent" THEN 1 ELSE 0),
                           2),
             !.outcome_details =
                 Append(@, IF info.winner = "agent" THEN "win"
                           ELSE IF info.winner = "draw_mutual" THEN "draw_mutual"
                           ELSE IF info.winner = "timeout" THEN "timeout"
                           ELSE "loss") ]

\* CountEpisode with a timeout counted as 1 in the binary history.
CountEpisode_TimeoutAsOne(st, done, info) ==
    IF ~done \/ info.winner = "none" THEN st
    ELSE [ st EXCEPT
             !.outcomes =
                 Append(@, IF info.winner \in {"agent", "timeout"}
                           THEN 1 ELSE 0),
             !.outcome_details =
                 Append(@, IF info.winner = "agent" THEN "win"
                           ELSE IF info.winner = "draw_mutual" THEN "draw_mutual"
                           ELSE IF info.winner = "timeout" THEN "timeout"
                           ELSE "loss") ]

\* CountEpisode with a mutual draw taken for a loss.
CountEpisode_DrawAsLoss(st, done, info) ==
    IF ~done \/ info.winner = "none" THEN st
    ELSE [ st EXCEPT
             !.outcomes = Append(@, IF info.winner = "agent" THEN 1 ELSE 0),
             !.outcome_details =
                 Append(@, IF info.winner = "agent" THEN "win"
                           ELSE IF info.winner = "timeout" THEN "timeout"
                           ELSE "loss") ]

\* The body of the loop of _on_step for one worker, lines 176-207, on the
\* tracker's lists and counters st.
CountEpisode(st, done, info) ==
    IF ~done THEN st
    ELSE IF info.winner = "none" THEN st
    ELSE [ outcomes |->
             Append(st.outcomes, IF info.winner = "agent" THEN 1 ELSE 0),
           outcome_details |->
             Append(st.outcome_details,
                    IF info.winner = "agent" THEN "win"
                    ELSE IF info.winner = "draw_mutual" THEN "draw_mutual"
                    ELSE IF info.winner = "timeout" THEN "timeout"
                    ELSE "loss"),
           reward_breakdowns |->
             IF info.rewardBreakdown # "none"
             THEN Append(st.reward_breakdowns, info.rewardBreakdown)
             ELSE st.reward_breakdowns,
           agent_asteroid_deaths |->
             IF info.agentDeathCause = "asteroid"
             THEN st.agent_asteroid_deaths + 1
             ELSE st.agent_asteroid_deaths,
           opponent_asteroid_deaths |->
             IF info.opponentDeathCause = "asteroid"
             THEN st.opponent_asteroid_deaths + 1
             ELSE st.opponent_asteroid_deaths ]

\* for done, info in zip(dones, infos), lines 175-207, from worker i on.
RECURSIVE CountAll(_, _, _, _)
CountAll(st, dones, infos, i) ==
    IF i > Min(Len(dones), Len(infos)) THEN st
    ELSE CountAll(CountEpisode(st, dones[i], infos[i]), dones, infos, i + 1)

\* Promote with the flag recomputed in every tick instead of latched.
Promote_Recomputed(sp, outs, w, m, thr) ==
    /\ Len(outs) >= Max(w, m)
    /\ Sum(LastSlice(outs, w)) * 100 >= thr * Len(LastSlice(outs, w))

\* Promote with the history compared with window_size alone.
Promote_WindowOnly(sp, outs, w, m, thr) ==
    IF Len(outs) >= w
    THEN LET recent == LastSlice(outs, w)
         IN  IF Sum(recent) * 100 >= thr * Len(recent) THEN TRUE ELSE sp
    ELSE sp

\* Promote with a strict comparison of the win rate with the threshold.
Promote_Strict(sp, outs, w, m, thr) ==
    IF Len(outs) >= Max(w, m)
    THEN LET recent == LastSlice(outs, w)
         IN  IF Sum(recent) * 100 > thr * Len(recent) THEN TRUE ELSE sp
    ELSE sp

\* The promotion check of _on_step, lines 209-214: the value of
\* should_promote after it, from its value sp before it.
Promote(sp, outs, w, m, thr) ==
    IF Len(outs) >= Max(w, m)
    THEN LET recent == LastSlice(outs, w)
         IN  IF Sum(recent) * 100 >= thr * Len(recent) THEN TRUE ELSE sp
    ELSE sp

\* What one worker can report in a tick, as (done, info): a step that ends
\* no episode (with a plain info, or with one that carries a winner field),
\* and the end of an episode with each terminal info.
AllReports ==
    { << FALSE, StepInfo >> }
    \cup { << FALSE, x >> : x \in { y \in TerminalInfos : y.winner = "agent" } }
    \cup { << TRUE, x >> : x \in TerminalInfos }

\* The reports of workers whose every episode ends with a winner, the agent
\* or the opponent.
DecidedReports ==
    { << FALSE, StepInfo >> }
    \cup { << TRUE, x >> :
             x \in { y \in TerminalInfos :
                       y.winner \in {"agent", "opponent"} } }

\* WinRateCallback._on_step, lines 170-217, on the arrays the rollout step
\* has put in self.locals.  (_maybe_print_progress only prints.)
WinRateOnStep ==
    /\ main_pc = "learn"
    /\ cb = "win"
    /\ \E reports \in [1..num_envs -> worker_reports] :
         LET dones == [i \in 1..num_envs |-> reports[i][1]]
             infos == [i \in 1..num_envs |-> reports[i][2]]
             st0 == [ outcomes |-> outcomes,
                      outcome_details |-> outcome_details,
                      reward_breakdowns |-> reward_breakdowns,
                      agent_asteroid_deaths |-> agent_asteroid_deaths,
                      opponent_asteroid_deaths |-> opponent_asteroid_deaths ]
             st == CountAll(st0, dones, infos, 1)
         IN  /\ Len(st.outcomes) <= horizon
             /\ locals' = [dones |-> dones, infos |-> infos]
             /\ outcomes' = st.outcomes
             /\ outcome_details' = st.outcome_details
             /\ reward_breakdowns' = st.reward_breakdowns
             /\ agent_asteroid_deaths' = st.agent_asteroid_deaths
             /\ opponent_asteroid_deaths' = st.opponent_asteroid_deaths
             /\ should_promote' =
                  Promote(should_promote, st.outcomes, window_size,
                          min_episodes, promotion_threshold)
    /\ cb' = After("win")
    /\ UNCHANGED << window_size, min_episodes, promotion_threshold,
                    num_envs, worker_reports, horizon, callbacks,
                    watcherVars, bestVars, logVars, mainVars, bridgeVars >>

(***************************************************************************)
(* ConfigReloadCallback (train_v3.py) and the file it watches.             *)
(***************************************************************************)
Num(v) == [kind |-> "num", val |-> v]

Absent == [kind |-> "absent", val |-> 0]

Malformed == [kind |-> "bad", val |-> 0]

\* A reload that reads the threshold and does not assign it.
ReloadedThreshold_Unassigned(f, thr) == thr

\* lines 263-268: the threshold after a reload of file f that parsed.
\* float() of a malformed value raises, and nothing is assigned.
ReloadedThreshold(f, thr) ==
    IF f.thr.kind = "num" THEN f.thr.val ELSE thr

\* lines 270-275: the learning rate after the reload; the statement is
\* reached only when the threshold was read without an exception.
ReloadedLearningRate(f, lr) ==
    IF f.thr.kind # "bad" /\ f.lr.kind = "num" THEN f.lr.val ELSE lr

\* What the body of the try statement of lines 259-278 raises on file f:
\* load_config fails on a file that cannot be opened or is not YAML, and
\* the reading of a value fails on one of the wrong type (float() of it,
\* or .get on what is no mapping).
ReloadRaises(f) ==
    IF ~f.parsable THEN "LoadError"
    ELSE IF f.thr.kind = "bad" THEN "ValueError"
    ELSE IF f.lr.kind = "bad" THEN "ValueError"
    ELSE "none"

\* An except clause that names the errors of load_config alone.
Caught_LoadOnly(e) == e = "LoadError"

\* except Exception, line 279.
Caught(e) == e \in {"LoadError", "ValueError"}

\* How _on_step ends when it reloads file f: it returns True (line 282),
\* or an exception that no clause catches leaves it.
ReloadEnds(f) ==
    IF ReloadRaises(f) = "none" \/ Caught(ReloadRaises(f))
    THEN "continue"
    ELSE ReloadRaises(f)

\* The test of line 256 with a file of the recorded modification time
\* taken for a changed one.
Newer_OrSame(mtime, last) == mtime >= last

\* The test of line 256, `mtime <= self._last_mtime`, negated: the file is
\* newer than the one the watcher has recorded.
Newer(mtime, last) == mtime > last

\* ConfigReloadCallback._on_step, lines 244-282.
ConfigReloadOnStep ==
    /\ main_pc = "learn"
    /\ cb = "reload"
    /\ cb' = After("reload")
    /\ reload_result' =
         IF check_due /\ cfg.exists /\ Newer(cfg.mtime, last_mtime)
         THEN ReloadEnds(cfg) ELSE "continue"
    /\ IF ~check_due
       THEN UNCHANGED << check_due, last_mtime, promotion_threshold,
                         learning_rate >>
       ELSE /\ check_due' = FALSE
            /\ IF ~cfg.exists
               THEN UNCHANGED << last_mtime, promotion_threshold,
                                 learning_rate >>
               ELSE IF ~Newer(cfg.mtime, last_mtime)
               THEN UNCHANGED << last_mtime, promotion_threshold,
                                 learning_rate >>
               ELSE /\ last_mtime' = cfg.mtime
                    /\ IF ~cfg.parsable
                       THEN UNCHANGED << promotion_threshold, learning_rate >>
                       ELSE /\ promotion_threshold' =
                                 ReloadedThreshold(cfg, promotion_threshold)
                            /\ learning_rate' =
                                 ReloadedLearningRate(cfg, learning_rate)
    /\ UNCHANGED << window_size, min_episodes, outcomes, outcome_details,
                    reward_breakdowns, agent_asteroid_deaths,
                    opponent_asteroid_deaths, should_promote,
                    num_envs, worker_reports, horizon, locals, callbacks,
                    cfg, bestVars, logVars, mainVars, bridgeVars >>

\* The wall clock passes the check interval (time.time(), line 245).
Elapse ==
    /\ ~check_due
    /\ check_due' = TRUE
    /\ UNCHANGED << trackerVars, tickVars, cfg, last_mtime, learning_rate,
                    reload_result, bestVars, logVars, mainVars,
                    bridgeVars >>

\* The operator edits the promotion threshold of the active stage in the
\* file, and nothing else (os.path.getmtime, line 251, then sees a newer
\* modification time).
EditThreshold ==
    /\ cfg.mtime < MaxEdits
    /\ cfg.exists /\ cfg.parsable
    /\ \E t \in Thresholds :
         /\ cfg.thr # Num(t)
         /\ cfg' = [cfg EXCEPT !.mtime = @ + 1, !.thr = Num(t)]
    /\ UNCHANGED << trackerVars, tickVars, last_mtime, check_due,
                    learning_rate, reload_result, bestVars, logVars,
                    mainVars, bridgeVars >>

\* What the file may hold for the threshold of the stage and for the
\* learning rate: a number, nothing, or a value that float() rejects.
ThresholdValues == { Num(t) : t \in Thresholds } \cup { Absent, Malformed }

RateValues == { Num(r) : r \in LearningRates } \cup { Absent, Malformed }

\* The operator rewrites, damages or removes the file.  A file that is
\* missing or is not YAML holds no values.
EditFile ==
    /\ cfg.mtime < MaxEdits
    /\ \E e \in BOOLEAN, p \in BOOLEAN,
          t \in ThresholdValues, l \in RateValues :
         /\ ~e => ~p
         /\ ~p => (t = Absent /\ l = Absent)
         /\ cfg' = [mtime |-> cfg.mtime + 1, exists |-> e, parsable |-> p,
                    thr |-> t, lr |-> l]
    /\ UNCHANGED << trackerVars, tickVars, last_mtime, check_due,
                    learning_rate, reload_result, bestVars, logVars,
                    mainVars, bridgeVars >>

\* A file that load_config could not read (its permissions, say) becomes
\* readable and holds numbers; its modification time stays as it is.
FileRestored ==
    /\ cfg.exists /\ ~cfg.parsable
    /\ \E t \in Thresholds, l \in LearningRates :
         cfg' = [cfg EXCEPT !.parsable = TRUE, !.thr = Num(t), !.lr = Num(l)]
    /\ UNCHANGED << trackerVars, tickVars, last_mtime, check_due,
                    learning_rate, reload_result, bestVars, logVars,
                    mainVars, bridgeVars >>

(***************************************************************************)
(* BestModelCallback (train_v3.py).  A win rate is the pair                *)
(* <<wins, length>> of RollingWinRate; the float 0.0 is <<0, 1>>.          *)
(***************************************************************************)
\* a > b for two win rates.
Greater(a, b) == a[1] * b[2] > b[1] * a[2]

\* best_win_rate of __init__, line 356.
ZeroRate == << 0, 1 >>

\* check_every of __init__, line 351 (train_stage leaves it at its default
\* of 50 episodes), scaled to the episodes followed.
CheckEverys == {1, 2}

\* The test of line 368 with >= for >.
Improves_OrEqual(wr, best) == wr # << >> /\ ~Greater(best, wr)

\* The test of line 368: wr is not None and wr > self.best_win_rate.
Improves(wr, best) == wr # << >> /\ Greater(wr, best)

\* BestModelCallback._on_step, lines 359-386.
BestModelOnStep ==
    /\ main_pc = "learn"
    /\ cb = "best"
    /\ cb' = After("best")
    /\ LET n == Len(outcomes)
           wr == RollingWinRate(outcomes, window_size)
       IN  IF n < window_size \/ n - last_checked_episodes < check_every
           THEN UNCHANGED << last_checked_episodes, best_win_rate,
                             best_written, observed >>
           ELSE /\ last_checked_episodes' = n
                /\ observed' = Append(observed, wr)
                /\ IF Improves(wr, best_win_rate)
                   THEN /\ best_win_rate' = wr
                        /\ best_written' =
                             Append(best_written,
                                    [win_rate |-> wr, episodes |-> n])
                   ELSE UNCHANGED << best_win_rate, best_written >>
    /\ UNCHANGED << check_every, trackerVars, num_envs, worker_reports,
                    horizon, locals, callbacks, watcherVars, logVars,
                    mainVars, bridgeVars >>

\* The tracker of a stage in which BestModelCallback is not followed.
BestUnused ==
    /\ check_every = 1
    /\ best_win_rate = ZeroRate
    /\ last_checked_episodes = 0
    /\ best_written = << >>
    /\ observed = << >>

(***************************************************************************)
(* JsonLogCallback (train_v3.py), its log stage<N>.jsonl and the           *)
(* dashboard file.  Of an entry the model keeps ts, episodes, win_rate,    *)
(* best_wr, stage, threshold and the two death counters; step, mean_reward *)
(* and the two breakdowns are further JSON values of the same entry.       *)
(***************************************************************************)
\* round(x, 4) of a win rate, in units of 1e-4 (no rate of the windows
\* followed lies halfway between two such values).
Round4(wr) == (2 * 10000 * wr[1] + wr[2]) \div (2 * wr[2])

\* The entry of lines 452-465.
Entry ==
    LET wr == RollingWinRate(outcomes, window_size)
    IN  [ ts |-> now,
          episodes |-> Len(outcomes),
          win_rate |-> IF wr = << >> THEN -1 ELSE Round4(wr),
          best_wr |-> Round4(best_win_rate),
          stage |-> stage_num,
          threshold |-> 100 * promotion_threshold,
          agent_asteroid_deaths |-> agent_asteroid_deaths,
          opponent_asteroid_deaths |-> opponent_asteroid_deaths ]

\* A line of the log: the text json.dumps gives for a value, a line of
\* white space, or text that is not JSON.
JsonLine(v) == [kind |-> "json", val |-> v]

BlankLine == [kind |-> "blank", val |-> 0]

BadLine == [kind |-> "bad", val |-> 0]

\* json.dumps(entry), line 470.
Dumps(e) == JsonLine(e)

\* The loop of lines 423-429 without its try statement: json.loads raises
\* on the first line that is not JSON, and the exception leaves __init__.
RECURSIVE LoadEntries_NoHandler(_, _)
LoadEntries_NoHandler(lines, acc) ==
    IF lines = << >> THEN [entries |-> acc, raised |-> "none"]
    ELSE LET l == Head(lines)
         IN  IF l.kind = "blank" THEN LoadEntries_NoHandler(Tail(lines), acc)
             ELSE IF l.kind = "json"
             THEN LoadEntries_NoHandler(Tail(lines), Append(acc, l.val))
             ELSE [entries |-> acc, raised |-> "JSONDecodeError"]

\* The loop of lines 423-429 over the lines of the file, from the entries
\* acc loaded so far: a stripped line that is empty is passed over, one
\* that json.loads parses is appended, and the JSONDecodeError of any other
\* is caught.
RECURSIVE LoadEntries(_, _)
LoadEntries(lines, acc) ==
    IF lines = << >> THEN [entries |-> acc, raised |-> "none"]
    ELSE LET l == Head(lines)
         IN  IF l.kind = "blank" THEN LoadEntries(Tail(lines), acc)
             ELSE IF l.kind = "json"
             THEN LoadEntries(Tail(lines), Append(acc, l.val))
             ELSE LoadEntries(Tail(lines), acc)

\* A file of the given lines; open: its last line has no newline yet.
\* A file that does not exist is the file of no lines (line 421).
File(lines, open) == [lines |-> lines, open |-> open]

\* The text of line l written after the text t of an unfinished line:
\* white space before a JSON value is stripped (line 424), anything else
\* before it leaves a line that json.loads rejects.
Joined(t, l) == IF t.kind = "blank" THEN l ELSE BadLine

\* open(path, "a") and f.write(line + "\n"), lines 469-470.
AppendLine(f, l) ==
    IF f.open
    THEN File([f.lines EXCEPT ![Len(f.lines)] = Joined(@, l)], FALSE)
    ELSE File(Append(f.lines, l), FALSE)

\* _write_dashboard_js with the last entry alone.
DashboardJs_LastOnly(es) == << es[Len(es)] >>

\* _write_dashboard_js, lines 480-483: the array of all entries.
DashboardJs(es) == es

\* JsonLogCallback._on_step, lines 431-475.
JsonLogOnStep ==
    /\ main_pc = "learn"
    /\ cb = "log"
    /\ cb' = After("log")
    /\ IF last_log_time = 0
       THEN /\ last_log_time' = now
            /\ UNCHANGED << entries, jsonl, dashboard_js >>
       ELSE IF now - last_log_time < 1
       THEN UNCHANGED << last_log_time, entries, jsonl, dashboard_js >>
       ELSE /\ last_log_time' = now
            /\ entries' = Append(entries, Entry)
            /\ jsonl' = AppendLine(jsonl, Dumps(Entry))
            /\ dashboard_js' = DashboardJs(entries')
    /\ UNCHANGED << now, trackerVars, num_envs, worker_reports, horizon,
                    locals, callbacks, watcherVars, bestVars, mainVars,
                    bridgeVars >>

\* A stage that builds a new model whatever checkpoint it is given.
ResumesFrom_Fresh(ck, a, fin) == [from |-> "fresh", stage |-> 0]

\* What train_stage builds its model from, lines 590-610: the file
\* checkpoint_path when the path is given and the file exists, else a new
\* PPO.  ck is `checkpoint` of main: 0 for args.checkpoint (lines 737 and
\* 790), or the stage whose final.zip it names (line 760); fin holds the
\* stages whose final.zip is written.
ResumesFrom(ck, a, fin) ==
    IF ck = 0
    THEN IF a.checkpoint = "exists"
         THEN [from |-> "user", stage |-> 0]
         ELSE [from |-> "fresh", stage |-> 0]
    ELSE IF ck \in fin
         THEN [from |-> "final", stage |-> ck]
         ELSE [from |-> "fresh", stage |-> 0]

\* The process ends during model.learn and the stage is started again:
\* train_stage builds new callbacks (lines 612-630), and the new
\* JsonLogCallback loads the log of the stage (lines 413-429).  The files
\* stay as they are.
Restart ==
    /\ main_pc = "learn"
    /\ Len(started) <= MaxRestarts
    /\ started' = Append(started, stage_num)
    /\ loaded' = Append(loaded, ResumesFrom(checkpoint, args, finals))
    /\ LET r == LoadEntries(jsonl.lines, << >>)
       IN  /\ entries' = r.entries
           /\ main_pc' = IF r.raised = "none" THEN "learn" ELSE "aborted"
    /\ last_log_time' = 0
    /\ outcomes' = << >>
    /\ outcome_details' = << >>
    /\ reward_breakdowns' = << >>
    /\ agent_asteroid_deaths' = 0
    /\ opponent_asteroid_deaths' = 0
    /\ should_promote' = FALSE
    /\ locals' = [dones |-> << >>, infos |-> << >>]
    /\ cb' = callbacks[1]
    /\ best_win_rate' = ZeroRate
    /\ last_checked_episodes' = 0
    /\ UNCHANGED << window_size, min_episodes, promotion_threshold,
                    num_envs, worker_reports, horizon, callbacks,
                    watcherVars, check_every, best_written, observed,
                    now, jsonl, dashboard_js, config, args, stage_num,
                    checkpoint, promoted, finals, metas, open_pools,
                    exports, bridgeVars >>

\* A logging interval passes on the wall clock.
ClockTick ==
    /\ now < MaxClock
    /\ now' = now + 1
    /\ UNCHANGED << entries, last_log_time, jsonl, dashboard_js,
                    trackerVars, tickVars, watcherVars, bestVars, mainVars,
                    bridgeVars >>

\* The logger of a stage in which JsonLogCallback is not followed.
LogUnused ==
    /\ entries = << >>
    /\ last_log_time = 0
    /\ now = 1
    /\ jsonl = File(<< >>, FALSE)
    /\ dashboard_js = << >>

(***************************************************************************)
(* MetricsCallback and StopOnPromotionCallback (train_v3.py), and the list *)
(* of callbacks train_stage hands to model.learn.                          *)
(***************************************************************************)
\* MetricsCallback._on_step, lines 311-339: it gathers the rewards of the
\* tick and prints, and returns True on every path.  (The logger puts the
\* mean of the rewards in its entry; the rewards are not followed.)
MetricsOnStep ==
    /\ main_pc = "learn"
    /\ cb = "metrics"
    /\ cb' = After("metrics")
    /\ UNCHANGED << trackerVars, num_envs, worker_reports, horizon, locals,
                    callbacks, watcherVars, bestVars, logVars, mainVars,
                    bridgeVars >>

\* A callback that never asks model.learn to stop.
Stops_Never(sp) == FALSE

\* StopOnPromotionCallback._on_step, line 293, returns `not should_promote`:
\* whether the callback asks model.learn to stop.
Stops(sp) == sp

\* StopOnPromotionCallback._on_step, lines 292-293.  The callback is the
\* last of the list (line 636): when it returns False the tick is over and
\* model.learn returns (line 639).
StopOnPromotionOnStep ==
    /\ main_pc = "learn"
    /\ cb = "stop"
    /\ cb' = After("stop")
    /\ main_pc' = IF Stops(should_promote) THEN "save" ELSE "learn"
    /\ UNCHANGED << trackerVars, num_envs, worker_reports, horizon, locals,
                    callbacks, watcherVars, bestVars, logVars, config, args,
                    stage_num, checkpoint, promoted, started, loaded, finals,
                    metas, open_pools, exports, bridgeVars >>

\* The list of lines 632-636 with the watcher ahead of the tracker.
Callbacks_WatcherFirst(config_path, early_stop) ==
    (IF config_path THEN << "reload" >> ELSE << >>)
    \o << "win", "metrics", "best", "log" >>
    \o (IF early_stop THEN << "stop" >> ELSE << >>)

\* The list of callbacks of lines 632-636: the tracker, the metrics, the
\* best-checkpoint tracker and the logger, then the watcher when a
\* configuration path is given, then the early stop when it is asked for.
Callbacks(config_path, early_stop) ==
    << "win", "metrics", "best", "log" >>
    \o (IF config_path THEN << "reload" >> ELSE << >>)
    \o (IF early_stop THEN << "stop" >> ELSE << >>)

(***************************************************************************)
(* main and train_stage (train_v3.py): the curriculum.                     *)
(*   main_pc  "next"    main is at the head of its loop (line 739), or     *)
(*                      before the single call of line 786                 *)
(*            "learn"   train_stage is in model.learn (line 639)           *)
(*            "save"    model.learn has returned (lines 640-656)           *)
(*            "close"   final.zip and meta.json are written (line 666)     *)
(*            "decide"  train_stage has returned (lines 760-779)           *)
(*            "exit"    main has returned                                  *)
(*            "aborted" an exception has left main                         *)
(*            "not_found" the ValueError of get_stage_config (line 41) has *)
(*                      left main                                          *)
(***************************************************************************)
\* The stages whose entry exports the self-play snapshot, line 765.
SelfPlayStages == {10, 12, 13}

\* --stage of the runs followed.
StartStages == {9, 11}

\* config["stages"].keys() of the runs followed: curricula that hold
\* every stage up to their last one, and curricula with a stage missing.
StageSets == { 9..12, 9..13, {9, 10, 12, 13}, {9, 10, 11, 13} }

\* --checkpoint (line 680): not given, the path of a file, or a path that
\* names no file.
CheckpointArgs == { "none", "exists", "missing" }

\* max(config["stages"].keys()), line 738.
max_stage == CHOOSE m \in config.stages : \A s \in config.stages : s <= m

\* vec_env.close() that leaves the pool open.
PoolsAfterClose_Leak(pools, s) == pools

\* The open pools after vec_env.close() of stage s, line 666.
PoolsAfterClose(pools, s) == pools \ {s}

\* The test of lines 762-779 with the loop going on whatever the stage
\* returned.
Continues_Always(prom, cont) == TRUE

\* Lines 762-779: the loop goes on to the next stage number unless the
\* stage was not promoted and --continue-all-stages is not given.
Continues(prom, cont) == prom \/ cont

\* The export of lines 765-774 without the test of line 762.
ExportsAfter_Unpromoted(ex, s, prom, final) ==
    IF s + 1 \in SelfPlayStages
    THEN Append(ex, [checkpoint |-> final, entering |-> s + 1])
    ELSE ex

\* The calls of export_onnx after lines 762-774 for stage s, whose
\* train_stage returned (final, prom).
ExportsAfter(ex, s, prom, final) ==
    IF prom /\ s + 1 \in SelfPlayStages
    THEN Append(ex, [checkpoint |-> final, entering |-> s + 1])
    ELSE ex

\* The record save_meta writes to meta.json, lines 497-514.
SaveMeta(s, thr, outs, w) ==
    [ stage |-> s, promotion_threshold |-> thr,
      episodes_counted |-> Len(outs),
      rolling_win_rate |-> RollingWinRate(outs, w) ]

\* main calls train_stage for stage_num (lines 739-759, or 786), whose
\* stage the configuration holds (line 537): it builds the pool, the model
\* and the callbacks of the stage (lines 537-636) and enters model.learn.
\* The threshold and the learning rate are those of the configuration main
\* has loaded (lines 539, 593 and 598); the watcher records the
\* modification time of the file (line 242), which raises OSError when the
\* file is gone, and its first poll is due (line 241).
StageStarts ==
    /\ main_pc = "next"
    /\ args.auto_promote => stage_num <= max_stage
    /\ stage_num \in config.stages
    /\ main_pc' = IF cfg.exists THEN "learn" ELSE "aborted"
    /\ started' = Append(started, stage_num)
    /\ open_pools' = open_pools \cup {stage_num}
    /\ loaded' = Append(loaded, ResumesFrom(checkpoint, args, finals))
    /\ promotion_threshold' = config.promotionThreshold
    /\ learning_rate' = config.learning_rate
    /\ last_mtime' = IF cfg.exists THEN cfg.mtime ELSE last_mtime
    /\ check_due' = TRUE
    /\ reload_result' = "none"
    /\ outcomes' = << >>
    /\ outcome_details' = << >>
    /\ reward_breakdowns' = << >>
    /\ agent_asteroid_deaths' = 0
    /\ opponent_asteroid_deaths' = 0
    /\ should_promote' = FALSE
    /\ locals' = [dones |-> << >>, infos |-> << >>]
    /\ cb' = callbacks[1]
    /\ UNCHANGED << window_size, min_episodes, num_envs, worker_reports,
                    horizon, callbacks, cfg, bestVars, logVars,
                    config, args, stage_num, checkpoint, promoted, finals,
                    metas, exports, bridgeVars >>

\* main calls train_stage for stage_num, which the configuration does not
\* hold: get_stage_config raises ValueError (lines 40-41) at line 537, or
\* at line 728 for the first stage of a run with --episodes, and nothing
\* catches it.
StageNotFound ==
    /\ main_pc = "next"
    /\ args.auto_promote => stage_num <= max_stage
    /\ stage_num \notin config.stages
    /\ main_pc' = "not_found"
    /\ UNCHANGED << trackerVars, tickVars, watcherVars, bestVars, logVars,
                    config, args, stage_num, checkpoint, promoted, started,
                    loaded,
                    finals, metas, open_pools, exports, bridgeVars >>

\* model.learn returns between two ticks: the budget of timesteps is
\* spent (line 639).
LearnEnds ==
    /\ main_pc = "learn"
    /\ cb = callbacks[1]
    /\ main_pc' = "save"
    /\ UNCHANGED << trackerVars, tickVars, watcherVars, bestVars, logVars,
                    config, args, stage_num, checkpoint, promoted, started,
                    loaded,
                    finals, metas, open_pools, exports, bridgeVars >>

\* An exception leaves model.learn, train_stage and main (no statement of
\* either catches one).
LearnAborts ==
    /\ main_pc = "learn"
    /\ main_pc' = "aborted"
    /\ UNCHANGED << trackerVars, tickVars, watcherVars, bestVars, logVars,
                    config, args, stage_num, checkpoint, promoted, started,
                    loaded,
                    finals, metas, open_pools, exports, bridgeVars >>

\* model.save(final_path) and save_meta, lines 642-656.
SaveFinal ==
    /\ main_pc = "save"
    /\ main_pc' = "close"
    /\ finals' = finals \cup {stage_num}
    /\ metas' = metas \cup { SaveMeta(stage_num, config.promotionThreshold,
                                      outcomes, window_size) }
    /\ UNCHANGED << trackerVars, tickVars, watcherVars, bestVars, logVars,
                    config, args, stage_num, checkpoint, promoted, started,
                    loaded,
                    open_pools, exports, bridgeVars >>

\* vec_env.close() and the return of train_stage, lines 666-667, and the
\* assignments of its result in main, lines 745 and 760.
StageReturns ==
    /\ main_pc = "close"
    /\ main_pc' = "decide"
    /\ open_pools' = PoolsAfterClose(open_pools, stage_num)
    /\ promoted' = should_promote
    /\ checkpoint' = stage_num
    /\ UNCHANGED << trackerVars, tickVars, watcherVars, bestVars, logVars,
                    config, args, stage_num, started, loaded, finals,
                    metas, exports, bridgeVars >>

\* Lines 762-779 and the step of the for statement, or the end of main
\* after the single stage of lines 781-800.
Decide ==
    /\ main_pc = "decide"
    /\ IF ~args.auto_promote
       THEN /\ main_pc' = "exit"
            /\ UNCHANGED << stage_num, exports >>
       ELSE /\ exports' = ExportsAfter(exports, stage_num, promoted,
                                       checkpoint)
            /\ IF Continues(promoted, args.continue_all_stages)
               THEN /\ stage_num' = stage_num + 1
                    /\ main_pc' = "next"
               ELSE /\ main_pc' = "exit"
                    /\ UNCHANGED stage_num
    /\ UNCHANGED << trackerVars, tickVars, watcherVars, bestVars, logVars,
                    config, args, checkpoint, promoted, started, loaded,
                    finals, metas, open_pools, bridgeVars >>

\* range(args.stage, max_stage + 1) is exhausted, line 739.
LoopEnds ==
    /\ main_pc = "next"
    /\ args.auto_promote
    /\ stage_num > max_stage
    /\ main_pc' = "exit"
    /\ UNCHANGED << trackerVars, tickVars, watcherVars, bestVars, logVars,
                    config, args, stage_num, checkpoint, promoted, started,
                    loaded,
                    finals, metas, open_pools, exports, bridgeVars >>

\* main inside model.learn of stage 1, the only stage that is followed.
MainLearning ==
    /\ config = [stages |-> {1}, promotionThreshold |-> promotion_threshold,
                 learning_rate |-> learning_rate]
    /\ args = [stage |-> 1, auto_promote |-> FALSE,
               continue_all_stages |-> FALSE, checkpoint |-> "none"]
    /\ stage_num = 1
    /\ main_pc = "learn"
    /\ checkpoint = 0
    /\ promoted = FALSE
    /\ started = << 1 >>
    /\ loaded = << [from |-> "fresh", stage |-> 0] >>
    /\ finals = {}
    /\ metas = {}
    /\ open_pools = {1}
    /\ exports = << >>

(***************************************************************************)
(* SpaceDogfightEnv (env.py): the bridge to one simulation worker.         *)
(*                                                                         *)
(* A call of reset, step or close is followed through its I/O: the call    *)
(* begins (pc "writing"), _send_command writes and flushes the request     *)
(* (pc "reading"), then reads the reply line and the call returns or       *)
(* raises (pc "idle").  The worker process may exit at any moment.         *)
(***************************************************************************)
\* The bridge after __init__, lines 26-46: no process yet.
\*   process  _process: 0 for None, else the number of the worker process
\*   spawned  worker processes this bridge has spawned so far
\*   alive    the worker processes of this bridge that have not exited
\*   written  request lines written to the process of the handle
\*   nread    reply lines read from it
\*   op, pc   the call in progress, or the last one, and its position
\*   io       what the last I/O of _send_command met
\*   raised   what the last _send_command raised
\*   result   how the last call ended
NewBridge ==
    [ process |-> 0, spawned |-> 0, alive |-> {}, written |-> 0, nread |-> 0,
      op |-> "none", pc |-> "idle", io |-> "none", raised |-> "none",
      result |-> "none" ]

\* What readline gives on the output stream of a live worker: a reply with
\* an observation (the episode goes on, or is done), a reply with an error
\* payload, a line that is not JSON, no line (the stream is closed), or an
\* I/O error.
Replies == { "ok", "done", "error", "malformed", "eof", "read_error" }

\* _kill_process without the kill: the handle is cleared, the process left.
KillProcess_ClearOnly(b) ==
    [b EXCEPT !.process = 0]

\* _kill_process, lines 92-98.
KillProcess(b) ==
    IF b.process # 0
    THEN [b EXCEPT !.alive = @ \ {b.process}, !.process = 0]
    ELSE b

\* _ensure_process that trusts any handle it holds (no poll()).
EnsureProcess_NoPoll(b, popen_ok) ==
    IF b.process # 0 THEN b
    ELSE IF popen_ok
         THEN [b EXCEPT !.spawned = @ + 1, !.process = b.spawned + 1,
                        !.alive = @ \cup {b.spawned + 1},
                        !.written = 0, !.nread = 0]
         ELSE [b EXCEPT !.raised = "OSError"]

\* _ensure_process that starts a worker process on every call, whatever
\* the handle holds.
EnsureProcess_Always(b, popen_ok) ==
    IF popen_ok
    THEN [b EXCEPT !.spawned = @ + 1, !.process = b.spawned + 1,
                   !.alive = @ \cup {b.spawned + 1},
                   !.written = 0, !.nread = 0]
    ELSE [b EXCEPT !.raised = "OSError"]

\* _ensure_process, lines 52-71.  Popen either starts a worker process or
\* raises OSError, which leaves the handle as it was.
EnsureProcess(b, popen_ok) ==
    IF b.process # 0 /\ b.process \in b.alive
    THEN b
    ELSE LET k == [b EXCEPT !.alive = @ \ {b.process}]
         IN  IF popen_ok
             THEN [k EXCEPT !.spawned = @ + 1, !.process = b.spawned + 1,
                            !.alive = @ \cup {b.spawned + 1},
                            !.written = 0, !.nread = 0]
             ELSE [k EXCEPT !.raised = "OSError"]

\* The except clause of _send_command without its call of _kill_process.
SendCrashed_NoCleanup(b) ==
    [b EXCEPT !.raised = "BridgeCrashed"]

\* The except clause of _send_command, lines 87-90.
SendCrashed(b) ==
    [KillProcess(b) EXCEPT !.raised = "BridgeCrashed"]

\* CallEnds with the worker killed when its reply carries an error.
CallEnds_KillsOnError(b) ==
    IF b.op = "close"
    THEN IF b.raised \in {"none", "BridgeCrashed"}
         THEN [KillProcess(b) EXCEPT !.pc = "idle", !.result = "ok"]
         ELSE [b EXCEPT !.pc = "idle", !.result = b.raised]
    ELSE IF b.raised = "none" /\ b.io = "error"
    THEN [KillProcess(b) EXCEPT !.pc = "idle", !.result = "BridgeError"]
    ELSE [b EXCEPT !.pc = "idle",
                   !.result = IF b.raised # "none" THEN b.raised ELSE "ok"]

\* How the call in progress ends once its _send_command has returned or
\* raised: reset, lines 113-117; step, lines 129-141; close, lines 145-149,
\* whose except clause names RuntimeError and OSError.
CallEnds(b) ==
    IF b.op = "close"
    THEN IF b.raised \in {"none", "BridgeCrashed"}
         THEN [KillProcess(b) EXCEPT !.pc = "idle", !.result = "ok"]
         ELSE [b EXCEPT !.pc = "idle", !.result = b.raised]
    ELSE [b EXCEPT !.pc = "idle",
                   !.result = IF b.raised # "none" THEN b.raised
                              ELSE IF b.io = "error" THEN "BridgeError"
                              ELSE "ok"]

\* reset up to its _send_command, lines 104-106.
ResetBegins(b, popen_ok) ==
    LET e == EnsureProcess([b EXCEPT !.op = "reset", !.io = "none",
                                     !.raised = "none", !.result = "none"],
                           popen_ok)
    IN  IF e.raised = "OSError"
        THEN [e EXCEPT !.pc = "idle", !.result = "SpawnError"]
        ELSE [e EXCEPT !.pc = "writing"]

\* step that starts a worker process when the bridge holds none.
StepBegins_Respawns(b) ==
    [EnsureProcess(b, TRUE) EXCEPT !.op = "step", !.pc = "writing",
                                   !.io = "none", !.raised = "none",
                                   !.result = "none"]

\* step up to its _send_command, lines 119-121.
StepBegins(b) ==
    [b EXCEPT !.op = "step", !.pc = "writing", !.io = "none",
              !.raised = "none", !.result = "none"]

\* close up to its _send_command, lines 143-145: nothing is done unless
\* the handle holds a process that has not exited.
CloseBegins(b) ==
    LET c == [b EXCEPT !.op = "close", !.io = "none", !.raised = "none",
                       !.result = "none"]
    IN  IF b.process # 0 /\ b.process \in b.alive
        THEN [c EXCEPT !.pc = "writing"]
        ELSE [c EXCEPT !.pc = "idle", !.result = "ok"]

\* The write and flush of _send_command, lines 80-82.  With no handle,
\* self._process.stdin raises AttributeError, which no clause catches; a
\* write to a process that has exited raises BrokenPipeError.
SendWrites(b, write_ok) ==
    IF b.process = 0
    THEN CallEnds([b EXCEPT !.raised = "AttributeError"])
    ELSE IF b.process \in b.alive /\ write_ok
    THEN [b EXCEPT !.written = @ + 1, !.pc = "reading"]
    ELSE CallEnds(SendCrashed([b EXCEPT !.io = "write_error"]))

\* The readline and json.loads of _send_command, lines 83-90.
\* json.JSONDecodeError is a ValueError, which the except clause does not
\* name.
SendReads(b, reply) ==
    IF reply \in {"eof", "read_error"}
    THEN CallEnds(SendCrashed([b EXCEPT !.io = reply]))
    ELSE IF reply = "malformed"
    THEN CallEnds([b EXCEPT !.nread = @ + 1, !.io = reply,
                            !.raised = "JSONDecodeError"])
    ELSE CallEnds([b EXCEPT !.nread = @ + 1, !.io = reply])

\* ---- the caller of a bridge ---------------------------------------------
\* Within the bounds, the bridge can take one more call: a request line on
\* the process it holds, or a fresh process.
CanCall(b) == b.process # 0 => b.written < MaxRequests

CanSpawn(b, popen_ok) ==
    (popen_ok /\ b.process \notin b.alive) => b.spawned < MaxSpawns

CallReset(i) ==
    /\ loop = "direct"
    /\ bridge[i].pc = "idle"
    /\ bridge[i].process \in bridge[i].alive => CanCall(bridge[i])
    /\ \E popen_ok \in BOOLEAN :
         /\ CanSpawn(bridge[i], popen_ok)
         /\ bridge' = [bridge EXCEPT ![i] = ResetBegins(@, popen_ok)]
    /\ UNCHANGED << trainVars, loop, cmd >>

CallStep(i) ==
    /\ loop = "direct"
    /\ bridge[i].pc = "idle"
    /\ CanCall(bridge[i])
    /\ bridge' = [bridge EXCEPT ![i] = StepBegins(@)]
    /\ UNCHANGED << trainVars, loop, cmd >>

CallClose(i) ==
    /\ loop = "direct"
    /\ bridge[i].pc = "idle"
    /\ CanCall(bridge[i])
    /\ bridge' = [bridge EXCEPT ![i] = CloseBegins(@)]
    /\ UNCHANGED << trainVars, loop, cmd >>

\* ---- the I/O of a call in progress --------------------------------------
BridgeWrite(i) ==
    /\ bridge[i].pc = "writing"
    /\ \E write_ok \in BOOLEAN :
         bridge' = [bridge EXCEPT ![i] = SendWrites(@, write_ok)]
    /\ UNCHANGED << trainVars, loop, cmd >>

BridgeRead(i) ==
    /\ bridge[i].pc = "reading"
    /\ \E reply \in Replies :
         /\ (bridge[i].process \notin bridge[i].alive) => reply = "eof"
         /\ bridge' = [bridge EXCEPT ![i] = SendReads(@, reply)]
    /\ UNCHANGED << trainVars, loop, cmd >>

\* A worker process exits on its own.
ProcessExits(i) ==
    /\ \E p \in bridge[i].alive :
         bridge' = [bridge EXCEPT ![i].alive = @ \ {p}]
    /\ UNCHANGED << trainVars, loop, cmd >>

Reset == \E i \in 1..num_envs : CallReset(i)

Step == \E i \in 1..num_envs : CallStep(i)

Close == \E i \in 1..num_envs : CallClose(i)

Write == \E i \in 1..num_envs : BridgeWrite(i)

Read == \E i \in 1..num_envs : BridgeRead(i)

WorkerExits == \E i \in 1..num_envs : ProcessExits(i)

\* The bridges of a run that are never started.
PoolUnused ==
    /\ bridge = [i \in 1..num_envs |-> NewBridge]
    /\ loop = "direct"
    /\ cmd = "none"

\* One bridge, driven by any sequence of reset, step and close calls.
InitBridge ==
    /\ window_size = 5 /\ min_episodes = 5 /\ promotion_threshold = 80
    /\ outcomes = << >>
    /\ outcome_details = << >>
    /\ reward_breakdowns = << >>
    /\ agent_asteroid_deaths = 0
    /\ opponent_asteroid_deaths = 0
    /\ should_promote = FALSE
    /\ num_envs = 1
    /\ worker_reports = DecidedReports
    /\ horizon = 0
    /\ locals = [dones |-> << >>, infos |-> << >>]
    /\ callbacks = << "win", "reload" >>
    /\ cb = "win"
    /\ learning_rate = 3
    /\ cfg = [mtime |-> 0, exists |-> TRUE, parsable |-> TRUE,
              thr |-> Num(promotion_threshold), lr |-> Num(learning_rate)]
    /\ last_mtime = cfg.mtime
    /\ check_due = TRUE
    /\ reload_result = "none"
    /\ BestUnused
    /\ LogUnused
    /\ MainLearning
    /\ PoolUnused

NextBridge ==
    \/ Reset
    \/ Step
    \/ Close
    \/ Write
    \/ Read
    \/ WorkerExits

SpecBridge == InitBridge /\ [][NextBridge]_vars

(***************************************************************************)
(* The worker pool of train_stage (train_v3.py 576-586) under model.learn  *)
(* (line 639): SubprocVecEnv for several environments, DummyVecEnv for     *)
(* one.  Each worker of the pool owns one bridge and runs the pool's       *)
(* command on it; the pool returns a tick's batch once every worker has    *)
(* answered.  A worker whose step ends an episode resets its environment   *)
(* within the same command.  Neither the pool nor train_stage handles an   *)
(* exception of reset or step: it ends model.learn and the stage.          *)
(***************************************************************************)
\* The worker of slot i is to reset its environment before it answers.
NeedsReset(i) ==
    /\ cmd = "step"
    /\ bridge[i].pc = "idle"
    /\ bridge[i].op = "step"
    /\ bridge[i].result = "ok"
    /\ bridge[i].io = "done"

\* model.learn resets every environment before the first tick.
PoolResetAll ==
    /\ loop = "start"
    /\ \E popen_ok \in [1..num_envs -> BOOLEAN] :
         bridge' = [i \in 1..num_envs |-> ResetBegins(bridge[i], popen_ok[i])]
    /\ loop' = "learning"
    /\ cmd' = "reset"
    /\ UNCHANGED trainVars

\* The rollout sends one step to every environment.
PoolStepAll ==
    /\ loop = "learning"
    /\ cmd = "none"
    /\ \A i \in 1..num_envs : bridge[i].written + 2 <= MaxRequests
    /\ bridge' = [i \in 1..num_envs |-> StepBegins(bridge[i])]
    /\ cmd' = "step"
    /\ UNCHANGED << trainVars, loop >>

WorkerAutoReset(i) ==
    /\ loop = "learning"
    /\ NeedsReset(i)
    /\ \E popen_ok \in BOOLEAN :
         /\ CanSpawn(bridge[i], popen_ok)
         /\ bridge' = [bridge EXCEPT ![i] = ResetBegins(@, popen_ok)]
    /\ UNCHANGED << trainVars, loop, cmd >>

\* The pool collects the answers of its workers: the batch, when every call
\* has returned; else the exception of a call, which leaves model.learn and
\* train_stage.
PoolGather ==
    /\ loop = "learning"
    /\ cmd # "none"
    /\ \A i \in 1..num_envs : bridge[i].pc = "idle" /\ ~NeedsReset(i)
    /\ loop' = IF \A i \in 1..num_envs : bridge[i].result = "ok"
               THEN "learning" ELSE "aborted"
    /\ cmd' = "none"
    /\ UNCHANGED << trainVars, bridge >>

\* One stage's pool under model.learn.
InitPool ==
    /\ window_size = 5 /\ min_episodes = 5 /\ promotion_threshold = 80
    /\ outcomes = << >>
    /\ outcome_details = << >>
    /\ reward_breakdowns = << >>
    /\ agent_asteroid_deaths = 0
    /\ opponent_asteroid_deaths = 0
    /\ should_promote = FALSE
    /\ num_envs \in EnvCounts
    /\ worker_reports = DecidedReports
    /\ horizon = 0
    /\ locals = [dones |-> << >>, infos |-> << >>]
    /\ callbacks = << "win", "reload" >>
    /\ cb = "win"
    /\ learning_rate = 3
    /\ cfg = [mtime |-> 0, exists |-> TRUE, parsable |-> TRUE,
              thr |-> Num(promotion_threshold), lr |-> Num(learning_rate)]
    /\ last_mtime = cfg.mtime
    /\ check_due = TRUE
    /\ reload_result = "none"
    /\ BestUnused
    /\ LogUnused
    /\ MainLearning
    /\ bridge = [i \in 1..num_envs |-> NewBridge]
    /\ loop = "start"
    /\ cmd = "none"

AutoReset == \E i \in 1..num_envs : WorkerAutoReset(i)

NextPool ==
    \/ PoolResetAll
    \/ PoolStepAll
    \/ PoolGather
    \/ AutoReset
    \/ Write
    \/ Read
    \/ WorkerExits

SpecPool == InitPool /\ [][NextPool]_vars

(***************************************************************************)
(* One stage of training with the tracker and the watcher: the state after *)
(* train_stage has built the callbacks (lines 537-539 and 612-636), then   *)
(* the ticks of model.learn.                                               *)
(***************************************************************************)
InitTracker ==
    /\ \E c \in TrackerConfigs :
         /\ window_size = c.window
         /\ min_episodes = c.min
    /\ promotion_threshold \in Thresholds
    /\ outcomes = << >>
    /\ outcome_details = << >>
    /\ reward_breakdowns = << >>
    /\ agent_asteroid_deaths = 0
    /\ opponent_asteroid_deaths = 0
    /\ should_promote = FALSE
    /\ num_envs = 2
    /\ worker_reports = DecidedReports
    /\ horizon = MaxEpisodes
    /\ locals = [dones |-> << >>, infos |-> << >>]
    /\ callbacks = << "win", "reload" >>
    /\ cb = "win"
    /\ learning_rate \in {3}
    /\ cfg = [mtime |-> 0, exists |-> TRUE, parsable |-> TRUE,
              thr |-> Num(promotion_threshold), lr |-> Num(learning_rate)]
    /\ last_mtime = cfg.mtime
    /\ check_due = TRUE
    /\ reload_result = "none"
    /\ BestUnused
    /\ LogUnused
    /\ MainLearning
    /\ PoolUnused

NextTracker ==
    \/ WinRateOnStep
    \/ ConfigReloadOnStep
    \/ Elapse
    \/ EditThreshold

SpecTracker == InitTracker /\ [][NextTracker]_vars

\* One stage in which the workers report every kind of info, followed for a
\* few episodes; the configuration file is not edited.
InitCount ==
    /\ window_size = 3
    /\ min_episodes = 1
    /\ promotion_threshold = 80
    /\ outcomes = << >>
    /\ outcome_details = << >>
    /\ reward_breakdowns = << >>
    /\ agent_asteroid_deaths = 0
    /\ opponent_asteroid_deaths = 0
    /\ should_promote = FALSE
    /\ num_envs \in EnvCounts
    /\ worker_reports = AllReports
    /\ horizon = MaxCounted
    /\ locals = [dones |-> << >>, infos |-> << >>]
    /\ callbacks = << "win", "reload" >>
    /\ cb = "win"
    /\ learning_rate = 3
    /\ cfg = [mtime |-> 0, exists |-> TRUE, parsable |-> TRUE,
              thr |-> Num(promotion_threshold), lr |-> Num(learning_rate)]
    /\ last_mtime = cfg.mtime
    /\ check_due = TRUE
    /\ reload_result = "none"
    /\ BestUnused
    /\ LogUnused
    /\ MainLearning
    /\ PoolUnused

NextCount ==
    \/ WinRateOnStep
    \/ ConfigReloadOnStep
    \/ Elapse

SpecCount == InitCount /\ [][NextCount]_vars

\* One stage with the tracker and the best-checkpoint tracker that reads
\* it (lines 612-622), then the ticks of model.learn.
InitBest ==
    /\ \E c \in TrackerConfigs :
         /\ window_size = c.window
         /\ min_episodes = c.min
    /\ promotion_threshold = 80
    /\ outcomes = << >>
    /\ outcome_details = << >>
    /\ reward_breakdowns = << >>
    /\ agent_asteroid_deaths = 0
    /\ opponent_asteroid_deaths = 0
    /\ should_promote = FALSE
    /\ num_envs \in EnvCounts
    /\ worker_reports = DecidedReports
    /\ horizon = MaxEpisodes
    /\ locals = [dones |-> << >>, infos |-> << >>]
    /\ callbacks = << "win", "best" >>
    /\ cb = "win"
    /\ learning_rate = 3
    /\ cfg = [mtime |-> 0, exists |-> TRUE, parsable |-> TRUE,
              thr |-> Num(promotion_threshold), lr |-> Num(learning_rate)]
    /\ last_mtime = cfg.mtime
    /\ check_due = TRUE
    /\ reload_result = "none"
    /\ check_every \in CheckEverys
    /\ best_win_rate = ZeroRate
    /\ last_checked_episodes = 0
    /\ best_written = << >>
    /\ observed = << >>
    /\ LogUnused
    /\ MainLearning
    /\ PoolUnused

NextBest ==
    \/ WinRateOnStep
    \/ BestModelOnStep

SpecBest == InitBest /\ [][NextBest]_vars

\* An entry of an earlier run of the stage, the i-th line of its log.
PastEntry(i) ==
    [ ts |-> i - (LongLog + 1), episodes |-> i, win_rate |-> 5000,
      best_wr |-> 5000, stage |-> 1, threshold |-> 8000,
      agent_asteroid_deaths |-> 0, opponent_asteroid_deaths |-> 0 ]

\* The lines of a log whose i-th line is of kind kinds[i].
PastLines(kinds) ==
    [ i \in 1..Len(kinds) |->
        IF kinds[i] = "json" THEN JsonLine(PastEntry(i))
        ELSE IF kinds[i] = "blank" THEN BlankLine
        ELSE BadLine ]

\* The logs a stage may find at its start: none; a few lines, each an
\* entry, blank or damaged, the last one with or without its newline; and
\* a log of LongLog entries.
PastLogs ==
    { File(<< >>, FALSE) }
    \cup { File(PastLines(k), o) :
             k \in UNION { [1..n -> {"json", "blank", "bad"}] :
                             n \in 1..MaxLines },
             o \in BOOLEAN }
    \cup { File([i \in 1..LongLog |-> JsonLine(PastEntry(i))], FALSE) }

\* One stage with the tracker and the telemetry logger (lines 612-630),
\* started on a log of earlier runs, then the ticks of model.learn; the
\* process may end and the stage be started again.
InitLog ==
    /\ window_size = 2
    /\ min_episodes = 2
    /\ promotion_threshold = 80
    /\ outcomes = << >>
    /\ outcome_details = << >>
    /\ reward_breakdowns = << >>
    /\ agent_asteroid_deaths = 0
    /\ opponent_asteroid_deaths = 0
    /\ should_promote = FALSE
    /\ num_envs = 1
    /\ worker_reports = DecidedReports
    /\ horizon = 1
    /\ locals = [dones |-> << >>, infos |-> << >>]
    /\ callbacks = << "win", "log" >>
    /\ cb = "win"
    /\ learning_rate = 3
    /\ cfg = [mtime |-> 0, exists |-> TRUE, parsable |-> TRUE,
              thr |-> Num(promotion_threshold), lr |-> Num(learning_rate)]
    /\ last_mtime = cfg.mtime
    /\ check_due = TRUE
    /\ reload_result = "none"
    /\ BestUnused
    /\ jsonl \in PastLogs
    /\ entries = LoadEntries(jsonl.lines, << >>).entries
    /\ last_log_time = 0
    /\ now = 1
    /\ dashboard_js = << >>
    /\ MainLearning
    /\ PoolUnused

NextLog ==
    \/ WinRateOnStep
    \/ JsonLogOnStep
    \/ ClockTick
    \/ Restart

SpecLog == InitLog /\ [][NextLog]_vars

\* One stage with the tracker and the best-checkpoint tracker (lines
\* 612-622), checked after every episode; the process may end and the
\* stage be started again, with best.zip and best_meta.json as they are.
InitBestRestart ==
    /\ window_size = 2
    /\ min_episodes = 2
    /\ promotion_threshold = 80
    /\ outcomes = << >>
    /\ outcome_details = << >>
    /\ reward_breakdowns = << >>
    /\ agent_asteroid_deaths = 0
    /\ opponent_asteroid_deaths = 0
    /\ should_promote = FALSE
    /\ num_envs = 1
    /\ worker_reports = DecidedReports
    /\ horizon = MaxCounted
    /\ locals = [dones |-> << >>, infos |-> << >>]
    /\ callbacks = << "win", "best" >>
    /\ cb = "win"
    /\ learning_rate = 3
    /\ cfg = [mtime |-> 0, exists |-> TRUE, parsable |-> TRUE,
              thr |-> Num(promotion_threshold), lr |-> Num(learning_rate)]
    /\ last_mtime = cfg.mtime
    /\ check_due = TRUE
    /\ reload_result = "none"
    /\ check_every = 1
    /\ best_win_rate = ZeroRate
    /\ last_checked_episodes = 0
    /\ best_written = << >>
    /\ observed = << >>
    /\ LogUnused
    /\ MainLearning
    /\ PoolUnused

NextBestRestart ==
    \/ WinRateOnStep
    \/ BestModelOnStep
    \/ Restart

SpecBestRestart == InitBestRestart /\ [][NextBestRestart]_vars

\* A run of main from its first statement: the stages of the curriculum,
\* each with its tracker followed for one episode.
InitMain ==
    /\ window_size = 1
    /\ min_episodes = 1
    /\ promotion_threshold = 80
    /\ outcomes = << >>
    /\ outcome_details = << >>
    /\ reward_breakdowns = << >>
    /\ agent_asteroid_deaths = 0
    /\ opponent_asteroid_deaths = 0
    /\ should_promote = FALSE
    /\ num_envs = 1
    /\ worker_reports = DecidedReports
    /\ horizon = 1
    /\ locals = [dones |-> << >>, infos |-> << >>]
    /\ callbacks = << "win" >>
    /\ cb = "win"
    /\ learning_rate = 3
    /\ cfg = [mtime |-> 0, exists |-> TRUE, parsable |-> TRUE,
              thr |-> Num(promotion_threshold), lr |-> Num(learning_rate)]
    /\ last_mtime = cfg.mtime
    /\ check_due = TRUE
    /\ reload_result = "none"
    /\ BestUnused
    /\ LogUnused
    /\ \E S \in StageSets :
         config = [stages |-> S, promotionThreshold |-> promotion_threshold,
                   learning_rate |-> learning_rate]
    /\ \E s \in StartStages, a \in BOOLEAN, c \in BOOLEAN,
          k \in CheckpointArgs :
         args = [stage |-> s, auto_promote |-> a, continue_all_stages |-> c,
                 checkpoint |-> k]
    /\ stage_num = args.stage
    /\ main_pc = "next"
    /\ checkpoint = 0
    /\ promoted = FALSE
    /\ started = << >>
    /\ loaded = << >>
    /\ finals = {}
    /\ metas = {}
    /\ open_pools = {}
    /\ exports = << >>
    /\ PoolUnused

NextMain ==
    \/ StageStarts
    \/ StageNotFound
    \/ WinRateOnStep
    \/ LearnEnds
    \/ LearnAborts
    \/ SaveFinal
    \/ StageReturns
    \/ Decide
    \/ LoopEnds

SpecMain == InitMain /\ [][NextMain]_vars

\* An auto-promote run over a curriculum of three stages, each with its
\* tracker and its watcher, while the operator works on the configuration
\* file.  One threshold stands for the thresholds of the stages, which the
\* file holds alike and the operator edits together.
InitCurriculum ==
    /\ window_size = 1
    /\ min_episodes = 1
    /\ promotion_threshold = 80
    /\ outcomes = << >>
    /\ outcome_details = << >>
    /\ reward_breakdowns = << >>
    /\ agent_asteroid_deaths = 0
    /\ opponent_asteroid_deaths = 0
    /\ should_promote = FALSE
    /\ num_envs = 1
    /\ worker_reports = DecidedReports
    /\ horizon = 1
    /\ locals = [dones |-> << >>, infos |-> << >>]
    /\ callbacks = << "win", "reload" >>
    /\ cb = "win"
    /\ learning_rate = 3
    /\ cfg = [mtime |-> 0, exists |-> TRUE, parsable |-> TRUE,
              thr |-> Num(promotion_threshold), lr |-> Num(learning_rate)]
    /\ last_mtime = cfg.mtime
    /\ check_due = TRUE
    /\ reload_result = "none"
    /\ BestUnused
    /\ LogUnused
    /\ config = [stages |-> 9..11, promotionThreshold |-> promotion_threshold,
                 learning_rate |-> learning_rate]
    /\ \E c \in BOOLEAN :
         args = [stage |-> 9, auto_promote |-> TRUE,
                 continue_all_stages |-> c, checkpoint |-> "none"]
    /\ stage_num = args.stage
    /\ main_pc = "next"
    /\ checkpoint = 0
    /\ promoted = FALSE
    /\ started = << >>
    /\ loaded = << >>
    /\ finals = {}
    /\ metas = {}
    /\ open_pools = {}
    /\ exports = << >>
    /\ PoolUnused

\* The operator edits the file while a stage is inside model.learn.
EditFileWhileLearning == main_pc = "learn" /\ EditFile

NextCurriculum ==
    \/ StageStarts
    \/ WinRateOnStep
    \/ ConfigReloadOnStep
    \/ Elapse
    \/ EditFileWhileLearning
    \/ LearnEnds
    \/ SaveFinal
    \/ StageReturns
    \/ Decide
    \/ LoopEnds

SpecCurriculum == InitCurriculum /\ [][NextCurriculum]_vars

\* One stage with the callbacks train_stage gives it, with and without
\* --early-stop, from the first tick of model.learn to its return, while
\* the operator edits the threshold in the file and the clock runs
\* through its last logging interval.
InitStage ==
    /\ window_size = 3
    /\ min_episodes = 3
    /\ promotion_threshold = 80
    /\ outcomes = << >>
    /\ outcome_details = << >>
    /\ reward_breakdowns = << >>
    /\ agent_asteroid_deaths = 0
    /\ opponent_asteroid_deaths = 0
    /\ should_promote = FALSE
    /\ num_envs = 1
    /\ worker_reports = DecidedReports
    /\ horizon = MaxCounted
    /\ locals = [dones |-> << >>, infos |-> << >>]
    /\ \E e \in BOOLEAN : callbacks = Callbacks(TRUE, e)
    /\ cb = callbacks[1]
    /\ learning_rate = 3
    /\ cfg = [mtime |-> 0, exists |-> TRUE, parsable |-> TRUE,
              thr |-> Num(promotion_threshold), lr |-> Num(learning_rate)]
    /\ last_mtime = cfg.mtime
    /\ check_due = TRUE
    /\ reload_result = "none"
    /\ check_every = 1
    /\ best_win_rate = ZeroRate
    /\ last_checked_episodes = 0
    /\ best_written = << >>
    /\ observed = << >>
    /\ entries = << >>
    /\ last_log_time = 0
    /\ now = MaxClock - 1
    /\ jsonl = File(<< >>, FALSE)
    /\ dashboard_js = << >>
    /\ MainLearning
    /\ PoolUnused

\* The clock and the operator, followed between two ticks.  Only the
\* logger reads the clock, and only the watcher reads whether a check is
\* due and what the file holds, each once in a tick: a change that comes
\* within a tick does what the same change does before the tick when it
\* comes ahead of its reader, and before the next tick when it comes
\* after it.
BetweenTicks == main_pc = "learn" /\ cb = callbacks[1]

ClockTickBetweenTicks == BetweenTicks /\ ClockTick

ElapseBetweenTicks == BetweenTicks /\ Elapse

EditThresholdBetweenTicks == BetweenTicks /\ EditThreshold

NextStage ==
    \/ WinRateOnStep
    \/ MetricsOnStep
    \/ BestModelOnStep
    \/ JsonLogOnStep
    \/ ConfigReloadOnStep
    \/ StopOnPromotionOnStep
    \/ ElapseBetweenTicks
    \/ EditThresholdBetweenTicks
    \/ ClockTickBetweenTicks
    \/ LearnEnds

SpecStage == InitStage /\ [][NextStage]_vars

\* A bridge after its first reset has been answered.
RunningBridge ==
    SendReads(SendWrites(ResetBegins(NewBridge, TRUE), TRUE), "ok")

\* One stage with the tracker, the best-checkpoint tracker and the watcher
\* over a pool whose workers run, while the operator edits the file.
InitWatcher ==
    /\ window_size = 2
    /\ min_episodes = 2
    /\ promotion_threshold = 80
    /\ outcomes = << >>
    /\ outcome_details = << >>
    /\ reward_breakdowns = << >>
    /\ agent_asteroid_deaths = 0
    /\ opponent_asteroid_deaths = 0
    /\ should_promote = FALSE
    /\ num_envs = 2
    /\ worker_reports = DecidedReports
    /\ horizon = MaxCounted
    /\ locals = [dones |-> << >>, infos |-> << >>]
    /\ callbacks = << "win", "best", "reload" >>
    /\ cb = "win"
    /\ learning_rate = 3
    /\ cfg = [mtime |-> 0, exists |-> TRUE, parsable |-> TRUE,
              thr |-> Num(promotion_threshold), lr |-> Num(learning_rate)]
    /\ last_mtime = cfg.mtime
    /\ check_due = TRUE
    /\ reload_result = "none"
    /\ BestUnused
    /\ LogUnused
    /\ MainLearning
    /\ bridge = [i \in 1..num_envs |-> RunningBridge]
    /\ loop = "learning"
    /\ cmd = "none"

NextWatcher ==
    \/ WinRateOnStep
    \/ BestModelOnStep
    \/ ConfigReloadOnStep
    \/ Elapse
    \/ EditThreshold
    \/ EditFile

SpecWatcher == InitWatcher /\ [][NextWatcher]_vars

\* The same stage, with a file that may also become readable again without
\* a new modification time.
NextReread ==
    \/ WinRateOnStep
    \/ BestModelOnStep
    \/ ConfigReloadOnStep
    \/ Elapse
    \/ EditThreshold
    \/ EditFile
    \/ FileRestored

SpecReread == InitWatcher /\ [][NextReread]_vars

(***************************************************************************)
(* The promotion latch.                                                    *)
(***************************************************************************)
\* The number of 1s among the last k entries of outs.
WinsInLast(outs, k) ==
    Cardinality({ i \in DOMAIN outs : i > Len(outs) - k /\ outs[i] = 1 })

\* The tracker's step of a tick: WinRateCallback._on_step has run and the
\* next callback of the list is due.
TrackerStep == cb = "win" /\ cb' = "reload"

\* C1: once should_promote is true it is true after every later step of the
\* stage, whatever the later outcomes and whatever the watcher does to the
\* live threshold.
C1_LatchNeverReverts == [][should_promote => should_promote']_vars

\* The latch is set, the watcher has raised the live threshold from 60% to
\* 80% during the stage, and the rolling win rate over the window is now
\* below even 60%.
C1_Witness ==
    /\ should_promote
    /\ cb = "win"
    /\ cfg.mtime = 1 /\ last_mtime = 1 /\ promotion_threshold = 80
    /\ Len(outcomes) >= window_size
    /\ WinsInLast(outcomes, window_size) * 100 < 60 * window_size

C3_PromotesWhenEligible ==
    [][ TrackerStep =>
          /\ ( /\ Len(outcomes') >= window_size
               /\ Len(outcomes') >= min_episodes
               /\ WinsInLast(outcomes', window_size) * 100
                      >= promotion_threshold' * window_size )
             => should_promote'
          /\ ( /\ window_size = 5 /\ min_episodes = 5
               /\ promotion_threshold = 80
               /\ outcomes' # outcomes
               /\ outcomes' = << 1, 1, 1, 1, 0 >> )
             => (~should_promote /\ should_promote')
      ]_vars

\* The stream [1,1,1,1,0] has been counted under window = 5,
\* minEpisodes = 5 and a threshold of 0.8 that was never edited, and the
\* latch is set.
C3_Witness ==
    /\ window_size = 5 /\ min_episodes = 5 /\ promotion_threshold = 80
    /\ cfg.mtime = 0
    /\ outcomes = << 1, 1, 1, 1, 0 >>
    /\ cb = "reload"
    /\ should_promote

(***************************************************************************)
(* Counting of episodes.                                                   *)
(***************************************************************************)
\* The workers of the tick's arrays whose episode is to be counted.
CountedWorkers(l) ==
    { i \in DOMAIN l.dones : l.dones[i] /\ l.infos[i].winner # "none" }

\* The j-th counted worker, in the order of the arrays.
NthCounted(l, j) ==
    CHOOSE i \in CountedWorkers(l) :
        Cardinality({ x \in CountedWorkers(l) : x <= i }) = j

\* C4: a tick appends to the outcome history exactly one entry for each
\* worker with done = true and a winner field in its info, in the order of
\* the workers, and nothing for a worker with done = false or with no
\* winner field; the entries already there are kept.
C4_OneEntryPerEndedEpisode ==
    [][ TrackerStep =>
          LET k == Cardinality(CountedWorkers(locals'))
          IN  /\ Len(outcomes') = Len(outcomes) + k
              /\ SubSeq(outcomes', 1, Len(outcomes)) = outcomes
              /\ \A j \in 1..k :
                   outcomes'[Len(outcomes) + j] =
                     IF locals'.infos[NthCounted(locals', j)].winner = "agent"
                     THEN 1 ELSE 0
              /\ Len(outcome_details') = Len(outcome_details) + k
      ]_vars

\* A tick of two workers has run: the first ended an episode with a
\* timeout, which was counted as 0, and the second ended none although its
\* info carries a winner, which was not counted.
C4_Witness ==
    /\ cb = "reload"
    /\ num_envs = 2
    /\ locals.dones = << TRUE, FALSE >>
    /\ locals.infos[1].winner = "timeout"
    /\ locals.infos[2].winner = "agent"
    /\ outcomes = << 1, 0 >>

(***************************************************************************)
(* The bridge and the pool.                                                *)
(***************************************************************************)
\* The bridge holds a worker process that has not exited.
Running(b) == b.process # 0 /\ b.process \in b.alive

\* C5: when one bridge's step fails with BridgeCrashed in a batched tick of
\* several workers, the results of the other workers are returned and the
\* training loop of the stage goes on.
C5_CrashIsIsolated ==
    \A i \in 1..num_envs :
        ( /\ num_envs > 1
          /\ cmd = "none"
          /\ bridge[i].op = "step"
          /\ bridge[i].result = "BridgeCrashed" )
        => loop = "learning"

\* C6: a reset that finds the bridge without a running worker spawns a new
\* worker process and holds it; a reset or step whose worker answers with
\* an observation succeeds and leaves the bridge on that worker, the last
\* one spawned.
C6_ResetRestoresRunning ==
    [][ \A i \in 1..num_envs :
          LET b == bridge[i]
              c == bridge'[i]
          IN  /\ ( /\ b.pc = "idle" /\ c.pc = "writing" /\ c.op = "reset"
                   /\ ~Running(b) )
                 => /\ c.spawned = b.spawned + 1
                    /\ c.process = c.spawned
                    /\ c.process \notin b.alive
                    /\ Running(c)
                    /\ c.written = 0 /\ c.nread = 0
              /\ ( /\ b.pc = "reading" /\ c.pc = "idle"
                   /\ c.op \in {"reset", "step"}
                   /\ c.io \in {"ok", "done"} )
                 => /\ c.result = "ok"
                    /\ c.process = b.process
                    /\ c.process = c.spawned
                    /\ c.process # 0
      ]_vars

\* The bridge has lost its first worker, a reset has spawned the second,
\* and a step on it has succeeded; the bridge is running.
C6_Witness ==
    \E i \in 1..num_envs :
        /\ bridge[i].spawned = 2
        /\ bridge[i].process = 2
        /\ Running(bridge[i])
        /\ bridge[i].op = "step" /\ bridge[i].pc = "idle"
        /\ bridge[i].result = "ok"
        /\ bridge[i].nread = 2

C8_MalformedIsCrash ==
    \A i \in 1..num_envs :
        (bridge[i].pc = "idle" /\ bridge[i].io = "malformed")
        => /\ bridge[i].raised = "BridgeCrashed"
           /\ bridge[i].process = 0
           /\ bridge[i].alive = {}

\* C9: on the streams of one worker process requests and replies alternate:
\* a step of the bridge writes at most one request line or reads at most
\* one reply line, a request is written only when every earlier request of
\* the process has had its reply read, and a reply is read only for the one
\* request outstanding.
C9_RequestsAndRepliesAlternate ==
    [][ \A i \in 1..num_envs :
          LET b == bridge[i]
              c == bridge'[i]
          IN  IF c.spawned # b.spawned
              THEN c.written = 0 /\ c.nread = 0
              ELSE /\ c.written \in {b.written, b.written + 1}
                   /\ c.nread \in {b.nread, b.nread + 1}
                   /\ c.written = b.written + 1
                        => (b.written = b.nread /\ c.nread = b.nread)
                   /\ c.nread = b.nread + 1
                        => (b.written = b.nread + 1 /\ c.written = b.written)
      ]_vars

\* A fourth request is on its way to a running worker that has answered
\* the three before it.
C9_Witness ==
    \E i \in 1..num_envs :
        /\ bridge[i].pc = "reading"
        /\ bridge[i].written = 4 /\ bridge[i].nread = 3
        /\ bridge[i].io = "none"
        /\ Running(bridge[i])

\* C10: close on a running bridge never fails: whatever the worker answers
\* to the close request, close returns normally and the bridge then holds
\* no process and no process of it is alive.
C10_CloseNeverFails ==
    \A i \in 1..num_envs :
        ( /\ bridge[i].pc = "idle" /\ bridge[i].op = "close"
          /\ bridge[i].io # "none" )
        => /\ bridge[i].result = "ok"
           /\ bridge[i].process = 0
           /\ bridge[i].alive = {}

(***************************************************************************)
(* The best checkpoint.                                                    *)
(***************************************************************************)
\* The best-checkpoint tracker compares a win rate in this step.
Observes == observed' # observed

\* The win rate compared in this step exceeds every one compared before.
ExceedsEarlier ==
    \A j \in 1..Len(observed) :
        Greater(observed'[Len(observed')], observed[j])

\* C11 as stated: a best checkpoint is written only when a win rate is
\* observed, and then if and only if the observed rate is strictly greater
\* than every rate observed earlier in the stage.
C11_WrittenIffExceedsEarlier ==
    [][ /\ best_written' # best_written => Observes
        /\ Observes => (best_written' # best_written <=> ExceedsEarlier)
      ]_vars

\* C11, amended: a best checkpoint is written only when a win rate is
\* observed, and then if and only if the observed rate is strictly greater
\* than 0 and than every rate observed earlier in the stage; the record
\* written holds that rate and the episode count.
C11_WrittenIffExceedsEarlierAndZero ==
    [][ /\ best_written' # best_written => Observes
        /\ Observes =>
             ( best_written' # best_written
                 <=> ( /\ Greater(observed'[Len(observed')], ZeroRate)
                       /\ ExceedsEarlier ) )
        /\ best_written' # best_written =>
             best_written' =
                 Append(best_written,
                        [win_rate |-> observed'[Len(observed')],
                         episodes |-> Len(outcomes)])
      ]_vars

\* Three rates have been observed: a first one above 0, written; a higher
\* one, written; then the first one again, not written.
C11_Witness ==
    /\ Len(observed) = 3
    /\ Greater(observed[1], ZeroRate)
    /\ Greater(observed[2], observed[1])
    /\ observed[3] = observed[1]
    /\ Len(best_written) = 2
    /\ best_written[2].win_rate = observed[2]
    /\ best_win_rate = observed[2]

(***************************************************************************)
(* The config watcher.                                                     *)
(***************************************************************************)
\* The watcher's _on_step runs, and finds the file changed at a poll.
WatcherStep == cb = "reload" /\ cb' = After("reload")

Reloads ==
    /\ WatcherStep
    /\ check_due
    /\ cfg.exists
    /\ cfg.mtime > last_mtime

\* C12: a poll that finds the file changed in the promotion threshold of
\* the stage alone sets the live threshold to the value of the file and
\* leaves the learning rate, the outcome history, the outcome records,
\* should_promote, the best win rate and checkpoint, and every bridge as
\* they were.
C12_ThresholdReloadedAlone ==
    [][ ( /\ Reloads
          /\ cfg.parsable
          /\ cfg.thr.kind = "num"
          /\ cfg.lr \in {Num(learning_rate), Absent} )
        => /\ promotion_threshold' = cfg.thr.val
           /\ learning_rate' = learning_rate
           /\ outcomes' = outcomes
           /\ outcome_details' = outcome_details
           /\ reward_breakdowns' = reward_breakdowns
           /\ agent_asteroid_deaths' = agent_asteroid_deaths
           /\ opponent_asteroid_deaths' = opponent_asteroid_deaths
           /\ should_promote' = should_promote
           /\ best_win_rate' = best_win_rate
           /\ best_written' = best_written
           /\ bridge' = bridge
      ]_vars

\* The threshold of the file has been lowered from 80 to 60 in a stage
\* that has counted a win and a loss, and saved a best checkpoint for it;
\* the poll has set the live threshold to 60, the history and the best
\* win rate are those of before, and the workers run.
C12_Witness ==
    /\ cb = "win"
    /\ last_mtime = 1
    /\ cfg = [mtime |-> 1, exists |-> TRUE, parsable |-> TRUE,
              thr |-> Num(60), lr |-> Num(3)]
    /\ promotion_threshold = 60
    /\ reload_result = "continue"
    /\ outcomes = << 1, 0 >>
    /\ best_win_rate = << 1, 2 >>
    /\ Len(best_written) = 1
    /\ ~should_promote
    /\ \A i \in 1..num_envs : Running(bridge[i])

\* C13: the watcher's step never lets an error escape and never stops the
\* training: whatever the file holds, it returns True.
C13_ReloadNeverAborts ==
    reload_result \in {"none", "continue"}

\* The watcher has polled a file whose learning rate is of the wrong type,
\* and has returned True.
C13_Witness ==
    /\ cb = "win"
    /\ cfg.exists /\ cfg.parsable
    /\ cfg.lr = Malformed
    /\ last_mtime = cfg.mtime
    /\ last_mtime > 0
    /\ reload_result = "continue"

\* C14: a reload that fails leaves both live values as they were: the
\* promotion threshold and the learning rate after the poll are those of
\* before it.
C14_FailedReloadRetainsBoth ==
    [][ (Reloads /\ ReloadRaises(cfg) # "none")
        => /\ promotion_threshold' = promotion_threshold
           /\ learning_rate' = learning_rate
      ]_vars

(***************************************************************************)
(* The telemetry log.                                                      *)
(***************************************************************************)
\* The stage is started again in this step.
Restarts == Len(started') = Len(started) + 1

\* The logger appends an entry in this step.
Appends == jsonl' # jsonl

IsJson(l) == l.kind = "json"

\* The values of the lines of a log that are JSON, in the order of the
\* file.
WellFormed(lines) ==
    LET js == SelectSeq(lines, IsJson)
    IN  [i \in 1..Len(js) |-> js[i].val]

\* C15: a restart on the log of the stage gives the in-memory sequence of
\* entries the process had before it, entry for entry; an append extends
\* the sequence by its entry.
C15_RestartReproducesEntries ==
    [][ /\ Restarts => entries' = entries
        /\ Appends => entries' = Append(entries, Entry)
      ]_vars

\* C16: after every append the dashboard file holds the in-memory sequence
\* of entries, which is the sequence of before the append (the entries
\* loaded at the start and those appended since) with the new entry at its
\* end; no other step of the stage changes the sequence in memory or the
\* file.
C16_SnapshotHoldsAllEntries ==
    [][ /\ Appends => /\ entries' = Append(entries, Entry)
                      /\ dashboard_js' = entries'
        /\ ~Appends => dashboard_js' = dashboard_js
        /\ (~Appends /\ ~Restarts) => entries' = entries
      ]_vars

\* The stage was started again on a log of LongLog entries, and the first
\* append since has written the dashboard file: it holds those entries and
\* the new one.
C16_Witness ==
    /\ Len(started) = 2
    /\ Len(dashboard_js) = LongLog + 1
    /\ \A i \in 1..LongLog : dashboard_js[i] = PastEntry(i)
    /\ dashboard_js[LongLog + 1].ts = now
    /\ dashboard_js = entries

\* C17: the load of a log never fails, whatever lines it holds: the stage
\* starts, and the sequence in memory holds the value of every line that
\* is JSON, in the order of the file, and nothing else.
C17_LoadSkipsMalformedLines ==
    [][ Restarts => /\ main_pc' = "learn"
                    /\ entries' = WellFormed(jsonl.lines)
      ]_vars

\* The stage was started again on a log of an entry, a damaged line and an
\* entry: the two entries are in memory.
C17_Witness ==
    /\ Len(started) = 2
    /\ main_pc = "learn"
    /\ last_log_time = 0
    /\ Len(jsonl.lines) = 3
    /\ jsonl.lines[1].kind = "json"
    /\ jsonl.lines[2].kind = "bad"
    /\ jsonl.lines[3].kind = "json"
    /\ entries = << PastEntry(1), PastEntry(3) >>

(***************************************************************************)
(* The curriculum.                                                         *)
(***************************************************************************)
\* main acts on the result of the stage that has returned.
Decides == main_pc = "decide" /\ main_pc' # "decide"

\* C18: with --auto-promote the stages started are the consecutive stage
\* numbers from --stage on, none above the last configured stage and none
\* twice; every stage started before the last one has its final checkpoint
\* written and its pool closed, at most one pool is open, and it is the
\* pool of the stage started last, which is in its training loop or
\* between the loop and the close of the pool.
C18_StagesRunInSequence ==
    args.auto_promote =>
        /\ \A i \in 1..Len(started) :
              /\ started[i] = args.stage + i - 1
              /\ started[i] <= max_stage
        /\ \A i \in 1..(Len(started) - 1) :
              /\ started[i] \in finals
              /\ started[i] \notin open_pools
        /\ Cardinality(open_pools) <= 1
        /\ open_pools # {} =>
              /\ open_pools = {started[Len(started)]}
              /\ main_pc \in {"learn", "save", "close", "aborted"}
        /\ main_pc \in {"decide", "next", "exit"} => open_pools = {}
        /\ main_pc = "decide" => stage_num \in finals

\* The third stage of a run is in its training loop: the two before it
\* have their final checkpoints and no pool.
C18_Witness ==
    /\ args.auto_promote
    /\ Len(started) = 3
    /\ main_pc = "learn"
    /\ outcomes # << >>
    /\ finals = {started[1], started[2]}
    /\ open_pools = {started[3]}

C20_ExportOnPromotionToSelfPlay ==
    [][ args.auto_promote =>
        /\ Decides =>
             IF promoted /\ (stage_num + 1) \in SelfPlayStages
             THEN /\ exports' =
                       Append(exports, [checkpoint |-> stage_num,
                                        entering |-> stage_num + 1])
                  /\ checkpoint = stage_num
                  /\ stage_num \in finals
             ELSE exports' = exports
        /\ ~Decides => exports' = exports
      ]_vars

\* A run from stage 9 is in stage 12: stage 9 was not promoted and the run
\* went on into stage 10 without an export; stage 11 was promoted, and its
\* final checkpoint was exported.
C20_Witness ==
    /\ args.auto_promote
    /\ args.continue_all_stages
    /\ started = << 9, 10, 11, 12 >>
    /\ main_pc = "learn"
    /\ exports = << [checkpoint |-> 11, entering |-> 12] >>

\* C22: every stage whose training loop was entered and is over, however
\* it ended, has its final checkpoint and its metadata record written;
\* they are there when main decides about the next stage.
C22_FinalAlwaysPersisted ==
    \A i \in 1..Len(started) :
        (i < Len(started) \/ main_pc \notin {"learn", "save"})
            => /\ started[i] \in finals
               /\ \E m \in metas : m.stage = started[i]

\* C23: when get_stage_config has ended the run for a stage the
\* configuration does not hold, no stage has been started: no tick was
\* executed and no checkpoint or metadata record was written.
C23_StageNotFoundBeforeAnyWork ==
    main_pc = "not_found"
        => /\ started = << >>
           /\ outcomes = << >>
           /\ finals = {}
           /\ metas = {}

\* --early-stop is given: StopOnPromotionCallback is in the list.
EarlyStop == \E i \in 1..Len(callbacks) : callbacks[i] = "stop"

\* C21: with --early-stop, no tick begins once should_promote is true;
\* the tick in which it became true goes on through every callback after
\* the tracker, in the order of the list, and model.learn returns at the
\* end of that very tick, by the early stop.  model.learn never returns
\* in the middle of a tick: it returns between two ticks (the budget) or
\* after the last callback of a tick (the early stop).
C21_StopsInTheTickOfPromotion ==
    [][ EarlyStop =>
        /\ (main_pc' = "learn" /\ cb' = callbacks[1]) => ~should_promote'
        /\ (main_pc = "learn" /\ main_pc' # "learn")
             => \/ cb = callbacks[1] /\ ~should_promote
                \/ cb = "stop" /\ should_promote
        /\ (main_pc = "learn" /\ should_promote /\ cb' # cb)
             => IF cb = "stop"
                THEN main_pc' = "save"
                ELSE main_pc' = "learn" /\ cb' = After(cb)
      ]_vars

\* Three wins in a row have fired the latch at the threshold of 80%; in
\* the same tick the best checkpoint and a telemetry entry were written
\* for the three episodes, and model.learn has returned by the early stop.
C21_Witness ==
    /\ EarlyStop
    /\ main_pc = "save"
    /\ should_promote
    /\ outcomes = << 1, 1, 1 >>
    /\ best_written = << [win_rate |-> << 3, 3 >>, episodes |-> 3] >>
    /\ Len(entries) = 1
    /\ entries[1].episodes = 3

\* The order in which C30 has the callbacks of a tick run.
FixedOrder == << "win", "metrics", "best", "log", "reload", "stop" >>

\* The place of callback c in that order.
Place(c) == CHOOSE i \in 1..Len(FixedOrder) : FixedOrder[i] = c

\* C30: the callbacks of the list are in the order tracker, metrics,
\* best-checkpoint tracker, logger, watcher, early stop, and a tick runs
\* them one after the other in the order of the list.  The watcher is the
\* only one that changes the threshold; its step leaves should_promote as
\* it is, and only the early stop runs after it in the tick, so the
\* threshold it applies is first read by the tracker of the next tick.
\* should_promote changes in a step of the tracker only.
C30_FixedOrderOfCallbacks ==
    [][ /\ \A i, j \in 1..Len(callbacks) :
             i < j => Place(callbacks[i]) < Place(callbacks[j])
        /\ (main_pc = "learn" /\ cb' # cb) => cb' = After(cb)
        /\ promotion_threshold' # promotion_threshold
             => /\ cb = "reload"
                /\ should_promote' = should_promote
                /\ Place("win") < Place("reload")
                /\ cb' \in {"stop", callbacks[1]}
        /\ should_promote' # should_promote => cb = "win"
      ]_vars

\* Two wins and a loss were counted and logged under the threshold of
\* 80%, which they do not reach; the watcher then applied 60%, and the
\* tracker of the next tick, in which no episode ended, has fired the
\* latch.
C30_Witness ==
    /\ EarlyStop
    /\ main_pc = "learn"
    /\ cb = "metrics"
    /\ should_promote
    /\ locals.dones = << FALSE >>
    /\ promotion_threshold = 60
    /\ outcomes = << 1, 1, 0 >>
    /\ Len(entries) = 1
    /\ entries[1].episodes = 3
    /\ entries[1].threshold = 100 * 80

\* C24: a restart of the process on the same stage leaves the tracker with
\* the history it had: the count of episodes and the rolling win rate
\* after the restart are those of before it.
C24_RestartKeepsHistory ==
    [][ Restarts =>
        /\ Len(outcomes') = Len(outcomes)
        /\ RollingWinRate(outcomes', window_size')
             = RollingWinRate(outcomes, window_size)
      ]_vars

\* Sequence s is the beginning of sequence t.
Prefix(s, t) == Len(s) <= Len(t) /\ SubSeq(t, 1, Len(s)) = s

\* C25: within a stage every step (a tick of the tracker, a poll or a
\* reload of the watcher, a check or a write of the best-checkpoint
\* tracker, a tick of the logger) leaves the outcome history as it is or
\* extends it at its end: the history before the step is a prefix of the
\* history after it, and so of every later one.
C25_HistoryIsAppendOnly ==
    [][ /\ Prefix(outcomes, outcomes')
        /\ Prefix(outcome_details, outcome_details')
      ]_vars

\* A history of three episodes, longer than it was when the logger wrote
\* its entry; the watcher has reloaded the threshold and the best
\* checkpoint was written during the stage.
C25_Witness ==
    /\ outcomes = << 0, 1, 1 >>
    /\ Len(entries) = 1
    /\ entries[1].episodes = 1
    /\ last_mtime = 1
    /\ promotion_threshold = 60
    /\ Len(best_written) = 1
    /\ should_promote

\* The category C27 gives an episode by its winner tag.
Category(tag) ==
    CASE tag = "agent" -> "win"
      [] tag = "draw_mutual" -> "draw_mutual"
      [] tag = "timeout" -> "timeout"
      [] OTHER -> "loss"

\* C27: in a tick, the j-th counted episode gets the one category its
\* winner tag gives it (win for agent, draw_mutual and timeout for
\* themselves, loss for any other tag), appended to the list of
\* categories, and the binary history gets 1 for it exactly when the
\* category is win.
C27_EpisodeClassifiedByWinner ==
    [][ TrackerStep =>
          LET k == Cardinality(CountedWorkers(locals'))
          IN  /\ Len(outcome_details') = Len(outcome_details) + k
              /\ Len(outcomes') = Len(outcomes) + k
              /\ \A j \in 1..k :
                   LET tag == locals'.infos[NthCounted(locals', j)].winner
                       cat == outcome_details'[Len(outcome_details) + j]
                       bit == outcomes'[Len(outcomes) + j]
                   IN  /\ cat = Category(tag)
                       /\ bit = IF cat = "win" THEN 1 ELSE 0
                       /\ bit = 1 <=> tag = "agent"
      ]_vars

\* Three episodes were counted: a mutual draw, then in one tick of two
\* workers a timeout and a win of the opponent; all three are 0 in the
\* binary history.
C27_Witness ==
    /\ cb = "reload"
    /\ num_envs = 2
    /\ locals.dones = << TRUE, TRUE >>
    /\ locals.infos[1].winner = "timeout"
    /\ locals.infos[2].winner = "opponent"
    /\ outcome_details = << "draw_mutual", "timeout", "loss" >>
    /\ outcomes = << 0, 0, 0 >>

\* C26: for the history of any state and every window W >= 1, the rolling
\* win rate is the number of 1s among the last min(W, n) outcomes over
\* min(W, n), n the length of the history, and there is none when the
\* history is empty.
C26_RollingWinRateIsWindowShare ==
    \A W \in 1..(MaxEpisodes + 1) :
        LET n == Len(outcomes)
            k == Min(W, n)
        IN  RollingWinRate(outcomes, W) =
              IF n = 0 THEN << >> ELSE << WinsInLast(outcomes, k), k >>

\* Over a history of five outcomes with four wins, the best-checkpoint
\* tracker has just observed the rate 1/2 of the window of two.
C26_Witness ==
    /\ window_size = 2
    /\ outcomes = << 1, 1, 1, 0, 1 >>
    /\ cb = "win"
    /\ last_checked_episodes = 5
    /\ observed # << >>
    /\ observed[Len(observed)] = << 1, 2 >>

\* The bridge has never held a worker process.
Unstarted(b) == b.spawned = 0 /\ b.process = 0

BestStep == main_pc = "learn" /\ cb = "best" /\ cb' # cb

\* C29: in every tick in which the history has grown by at least
\* check_every episodes since the last check, the best-checkpoint tracker
\* makes a check (it takes the length of the history as that of its last
\* check and compares the rolling win rate), and in no other tick; at a
\* check it writes the checkpoint exactly when the rolling win rate is
\* strictly above the best so far.
C29_ChecksOnCadence ==
    [][ BestStep =>
          LET n == Len(outcomes)
              wr == RollingWinRate(outcomes, window_size)
          IN  IF n - last_checked_episodes >= check_every
              THEN /\ Observes
                   /\ last_checked_episodes' = n
                   /\ best_written' # best_written
                        <=> Greater(wr, best_win_rate)
              ELSE /\ ~Observes
                   /\ UNCHANGED << last_checked_episodes, best_written >>
      ]_vars

\* C33: a reply with an error payload ends the reset or step call with an
\* error and leaves the bridge with the same handle and the same running
\* process, nothing spawned and nothing killed; a reset that begins on a
\* bridge whose process runs goes to its request on that process and
\* spawns none.
C33_ErrorReplyKeepsProcess ==
    [][ \A i \in DOMAIN bridge :
          LET b == bridge[i]
              c == bridge'[i]
          IN  /\ (b.pc = "reading" /\ b.op \in {"reset", "step"}
                    /\ c.pc = "idle" /\ c.io = "error")
                   => /\ c.result = "BridgeError"
                      /\ c.process = b.process
                      /\ c.alive = b.alive
                      /\ c.spawned = b.spawned
                      /\ Running(b) => Running(c)
              /\ (b.pc = "idle" /\ c.pc = "writing" /\ c.op = "reset"
                    /\ Running(b))
                   => /\ c.process = b.process
                      /\ c.alive = b.alive
                      /\ c.spawned = b.spawned
                      /\ c.written = b.written
      ]_vars

\* A step call has failed on a reply with an error payload, the third
\* reply of the first worker process, which still runs.
C33_Witness ==
    \E i \in DOMAIN bridge :
        /\ bridge[i].op = "step"
        /\ bridge[i].pc = "idle"
        /\ bridge[i].io = "error"
        /\ bridge[i].result = "BridgeError"
        /\ bridge[i].spawned = 1
        /\ bridge[i].nread = 3
        /\ Running(bridge[i])

\* C34: a bridge has at most one worker process that has not exited, and
\* it is the process of its handle.  A process is spawned only on a
\* bridge with no handle or with the handle of a process that has exited,
\* and after the spawn the new process is the only one of the bridge.
C34_AtMostOneLiveProcess ==
    [][ \A i \in DOMAIN bridge :
          LET b == bridge[i]
              c == bridge'[i]
          IN  /\ Cardinality(c.alive) <= 1
              /\ c.alive \subseteq {c.process}
              /\ c.spawned # b.spawned
                   => /\ ~Running(b)
                      /\ c.process = c.spawned
                      /\ c.alive = {c.process}
      ]_vars

\* The first worker process of a bridge exited on its own while the bridge
\* held its handle; a reset has replaced it, and the second process is the
\* only one.
C34_Witness ==
    \E i \in DOMAIN bridge :
        /\ bridge[i].spawned = 2
        /\ bridge[i].process = 2
        /\ bridge[i].alive = {2}
        /\ bridge[i].op = "reset"
        /\ bridge[i].result = "ok"

\* C40: in every state of a stage the binary history and the list of
\* categories have the same length, the binary entry of an episode is 1
\* exactly when its category is win, and the list of reward breakdowns is
\* not longer than the history.
C40_HistoryAndCategoriesAgree ==
    /\ Len(outcomes) = Len(outcome_details)
    /\ \A i \in 1..Len(outcomes) :
         outcomes[i] = 1 <=> outcome_details[i] = "win"
    /\ Len(reward_breakdowns) <= Len(outcomes)

\* Three episodes were counted, a win, a timeout and a loss; two of them
\* came with a reward breakdown.
C40_Witness ==
    /\ cb = "reload"
    /\ outcomes = << 1, 0, 0 >>
    /\ outcome_details = << "win", "timeout", "loss" >>
    /\ Len(reward_breakdowns) = 2

\* C31: a step of the watcher that is not due, or that polls a file that
\* is missing or whose modification time is not above the recorded one,
\* reloads nothing: the live threshold, the learning rate and the recorded
\* modification time are those of before, and the step goes on.  A poll
\* uses up the check interval: no other poll is made until the interval
\* has passed again.
C31_UnchangedFileIsNoOp ==
    [][ WatcherStep =>
          /\ (~check_due \/ ~cfg.exists \/ cfg.mtime <= last_mtime)
               => /\ promotion_threshold' = promotion_threshold
                  /\ learning_rate' = learning_rate
                  /\ last_mtime' = last_mtime
                  /\ reload_result' = "continue"
          /\ ~check_due'
      ]_vars

\* The watcher failed to read the changed file and recorded its
\* modification time; the file has become readable, with a threshold of
\* 60% against the live 80%, and a later poll that was due has left the
\* live values alone.
C31_Witness ==
    /\ cb = "win"
    /\ ~check_due
    /\ cfg = [mtime |-> 1, exists |-> TRUE, parsable |-> TRUE,
              thr |-> Num(60), lr |-> Num(1)]
    /\ last_mtime = 1
    /\ promotion_threshold = 80
    /\ learning_rate = 3

\* C39: a poll that is due on a file that can be read and holds numbers
\* applies them, whether or not the modification time is above the
\* recorded one: a reload that failed is made again by a later poll once
\* the file is readable.
C39_FailedReloadIsRetried ==
    [][ ( /\ WatcherStep
          /\ check_due
          /\ cfg.exists /\ cfg.parsable
          /\ cfg.thr.kind = "num" /\ cfg.lr.kind = "num" )
        => /\ promotion_threshold' = cfg.thr.val
           /\ learning_rate' = cfg.lr.val
      ]_vars

\* C38: the entry the logger appends is in the log as an entry of its own:
\* a start of the stage on the file as it is after the append loads the
\* appended entry as its last one, also when the line before it had been
\* left without its newline.
C38_AppendedEntryIsLoaded ==
    [][ Appends =>
          LET r == LoadEntries(jsonl'.lines, << >>).entries
          IN  /\ r # << >>
              /\ r[Len(r)] = Entry
      ]_vars

\* C37: every write of the best checkpoint of a stage records a win rate
\* strictly above the one of the write before it, whether or not the
\* process was started again between the two.
C37_BestWinRateNeverDecreases ==
    [][ (best_written' # best_written /\ best_written # << >>)
        => Greater(best_written'[Len(best_written')].win_rate,
                   best_written[Len(best_written)].win_rate)
      ]_vars

\* C32: in an auto-promote run the first stage builds its model from the
\* checkpoint of --checkpoint when that file exists and from nothing
\* otherwise, and every later stage builds it from the final checkpoint of
\* the stage called just before it, promoted or not.
C32_ResumesFromPrecedingFinal ==
    args.auto_promote =>
        /\ Len(loaded) = Len(started)
        /\ \A i \in 1..Len(loaded) :
             loaded[i] =
               IF i = 1
               THEN IF args.checkpoint = "exists"
                    THEN [from |-> "user", stage |-> 0]
                    ELSE [from |-> "fresh", stage |-> 0]
               ELSE [from |-> "final", stage |-> started[i - 1]]

\* The stage after one that was not promoted has built its model, in a run
\* that was given a checkpoint.
C32_Witness ==
    /\ args.auto_promote
    /\ args.checkpoint = "exists"
    /\ Len(loaded) >= 2
    /\ ~promoted
    /\ main_pc = "learn"

\* C35: the record a stage writes to meta.json at its end holds the
\* promotion threshold the tracker holds at that moment, which is the one
\* the watcher has patched when it patched one.
C35_MetaHoldsLiveThreshold ==
    [][ (main_pc = "save" /\ main_pc' = "close")
        => SaveMeta(stage_num, promotion_threshold, outcomes, window_size)
             \in metas'
      ]_vars

\* C36: in an auto-promote run, when a stage after the first starts while
\* the file holds a threshold and a learning rate, the tracker's threshold
\* and the model's learning rate are the ones of the file.
C36_StageStartsWithValuesOfFile ==
    [][ ( /\ args.auto_promote
          /\ main_pc = "next" /\ main_pc' = "learn"
          /\ started # << >>
          /\ cfg.parsable /\ cfg.thr.kind = "num" /\ cfg.lr.kind = "num" )
        => /\ promotion_threshold' = cfg.thr.val
           /\ learning_rate' = cfg.lr.val
      ]_vars

====
